---- MODULE Spec2Model ----
(***************************************************************************)
(* vue-nutrient-viewer-app: the session manager (useNutrientViewer), the   *)
(* event bridge (useViewerEvents) and the mirrored view-state cells        *)
(* (useViewerActions), together with the parts of the viewing engine and   *)
(* of the token endpoint that they talk to.                                *)
(*                                                                         *)
(* Scheduling.  JavaScript runs each task to completion, so an action is   *)
(* the code between two suspension points.  A Vue watch() callback with    *)
(* the default flush runs in the microtask that follows the write to the   *)
(* watched ref, before any other task (a click handler, a network          *)
(* response, an engine event) can run; the writes to `instance` are        *)
(* therefore modelled together with the watcher callbacks they trigger.    *)
(***************************************************************************)
EXTENDS Integers, Sequences, FiniteSets, TLC

\* ---------------------------------------------------------------- bounds

\* number of load() calls issued in one behaviour
MaxCalls == 2


\* number of activity records created in one behaviour
MaxRecords == 3

\* number of search() calls made in one behaviour
MaxSearches == 2

\* number of fetchLayers() requests sent in one behaviour
MaxLayerFetches == 2

\* number of getLayerJWT() requests sent in one behaviour
MaxLayerTokens == 1

\* number of createTextAnnotation() and deleteAnnotation() calls that reach
\* the engine in one behaviour
MaxAnnotationOps == 2

\* number of entries of an object in an event payload
MaxEntries == 2

\* number of refreshLayers() and layer visibility calls that reach the
\* engine in one behaviour
MaxVisibilityOps == 3

\* ------------------------------------------------------------ input sets

\* the layers of a PDF, as instance.getLayers() lists them, by ocgId
OcgLayers == <<1, 2>>
OcgIds == {OcgLayers[i] : i \in DOMAIN OcgLayers}

\* the option maxEvents of useViewerEvents (50 when not given), the capacity
\* of the activity log
maxEvents == 2

Surfaces == {"s1", "s2"}
Docs == {"d1", "d2"}

\* the `layer` argument of load(): omitted, the default layer, a named layer
Undefined == "<undefined>"
LayerArgs == {Undefined, "", "L1"}

Null == "<null>"
None == 0
NoClaim == "<no-claim>"
NoSurface == "<no-surface>"
NoError == [kind |-> "none", call |-> None, isError |-> TRUE]

CallIds == 1 .. MaxCalls

\* the record of the operation that made a step: its name, for an engine
\* event the emitting instance, the event kind and the payload, and for
\* startListening and stopListening whether the call returned at its guard;
\* for an operation of the action facade its integer argument (arg), its
\* zoom argument (zoom), the calls it made on the engine, in order
\* (engine), and whether it threw (threw); for search and its navigator the
\* number of the search (arg), the query (query) and the index given to
\* goToResult (index)
Op(name) ==
  [op |-> name, inst |-> None, kind |-> "", page |-> 0,
   zoom |-> [t |-> "other", n |-> 0, s |-> ""], guarded |-> FALSE,
   arg |-> 0, index |-> 0, query |-> <<>>, engine |-> <<>>, threw |-> FALSE]

\* ------------------------------------------------------------- variables

VARIABLES
  \* useNutrientViewer cells
  instance, isLoading, error, containerRef, currentDocumentId, currentLayer,
  \* one record per load() call issued so far, in the order of issue
  calls,
  \* the viewing engine: the instances instantiated and not yet unloaded, the
  \* unloads that were started and have not completed, the number of unload
  \* calls received per surface and the listeners registered on the instances
  engLoaded, engUnloading, unloadCalls, registry,
  \* useViewerEvents
  events, isListening, listeners, eventCounter,
  \* useViewerActions
  currentPage, totalPages, currentZoom, eventHandlers,
  \* one record per search() call made so far, in the order of the calls
  searches,
  \* POST /api/jwt: the last request handled, with its answer
  jwtExchange,
  \* the layer selector: props.documentId (propsDocumentId), and the cells of useInstantLayers
  \* (isLoading and error are layersLoading and layersError here)
  propsDocumentId, layers, currentLayerName, layersLoading, layersError,
  \* one record per request of fetchLayers and of getLayerJWT, in the order
  \* of sending
  layerFetches, layerTokens,
  \* the document routes of the server: the last request handled, with the
  \* answer of the backend and the answer of the route
  proxyExchange,
  \* useAnnotations: the cells (isLoading and error are annLoading and
  \* annError here) and one record per createTextAnnotation and
  \* deleteAnnotation call that reached the engine, in the order of the calls
  annotations, annLoading, annError, annOps,
  \* the annotations the engine holds for each document
  engAnnotations,
  \* sanitizeEventData: the last payload given to it, with its result
  sanitizeExchange,
  \* the layer visibility manager (the layers of the PDF): the cells
  \* (layers, isLoading and error are pdfLayers, pdfLoading and pdfError
  \* here) and one record per call that reached the engine, in the order of
  \* the calls
  pdfLayers, pdfLoading, pdfError, hasLayers, visOps,
  \* the visible layers the engine holds for each instance
  engVisible,
  \* the operation that made the last step
  lastOp

sessionVars == <<instance, isLoading, error, containerRef, currentDocumentId, currentLayer>>
engineVars == <<engLoaded, engUnloading, unloadCalls>>
eventsVars == <<events, isListening, listeners, eventCounter>>
actionsVars == <<currentPage, totalPages, currentZoom, eventHandlers>>
bridgeVars == <<registry, eventsVars, actionsVars>>
searchVars == <<searches>>
issuerVars == <<jwtExchange>>
directoryCells == <<layers, currentLayerName, layersLoading, layersError>>
directoryVars == <<propsDocumentId, directoryCells, layerFetches, layerTokens>>
proxyVars == <<proxyExchange>>
\* the cells outside the viewer session: the server routes and the layer
\* directory
annotationVars == <<annotations, annLoading, annError, annOps, engAnnotations>>
visibilityVars == <<pdfLayers, pdfLoading, pdfError, hasLayers, visOps, engVisible>>
extraVars == <<sanitizeExchange, visibilityVars>>
outerVars == <<issuerVars, directoryVars, proxyVars, annotationVars, extraVars>>
viewerVars == <<sessionVars, calls, engineVars, bridgeVars, searchVars>>
\* what the token endpoint and the layer directory leave alone
restVars == <<viewerVars, proxyVars, annotationVars, extraVars>>
vars == <<viewerVars, outerVars, lastOp>>

\* ------------------------------------------------------------- fetchJWT

\* the body of the token request: the layer is sent only when it is truthy
JwtBody(documentId, layer) ==
  [documentId |-> documentId,
   layer |-> IF layer # Undefined /\ layer # "" THEN layer ELSE NoClaim]

\* the token the endpoint answers with, for request number jti
IssueToken(body, jti) ==
  [document_id |-> body.documentId, layer |-> body.layer, jti |-> jti]

NoToken == [document_id |-> "", layer |-> NoClaim, jti |-> None]

\* err instanceof Error ? err : new Error(String(err))
ToError(err) == IF err.isError THEN err ELSE [err EXCEPT !.isError = TRUE]

\* layer ?? null
OrNull(layer) == IF layer = Undefined THEN Null ELSE layer

\* ---------------------------------------------------------------- engine

SurfaceOf(i) == calls[i].container

\* the instances the engine holds on surface s
LoadedOn(s) == {i \in engLoaded : SurfaceOf(i) = s}

InFlight(c) == calls[c].pc \in {"fetching", "instantiating"}
Settled(c) == calls[c].pc \in {"resolved", "rejected"}

\* the page count of a document, as the engine reports it (totalPageCount)
PageCount(d) == IF d = "d1" THEN 2 ELSE 3

\* zoom values as the engine hands them out: a number (in hundredths), a
\* mode string, an object carrying zoomMode, or anything else
Num(n) == [t |-> "number", n |-> n, s |-> ""]
Str(m) == [t |-> "string", n |-> 0, s |-> m]
Obj(m) == [t |-> "object", n |-> 0, s |-> m]
Other == [t |-> "other", n |-> 0, s |-> ""]

\* the view state of a freshly instantiated instance
InitialViewState == [currentPageIndex |-> 0, zoom |-> Str("AUTO")]

\* a handler (closure) is known by its owner, its event kind and a
\* generation number; a closure that is referenced nowhere can share its
\* number with a later one
Handler(owner, kind, gen) == <<owner, kind, gen>>

GensInUse(reg, maps) ==
  {e[3][3] : e \in reg} \cup UNION {{m[k][3] : k \in DOMAIN m} : m \in maps}

RECURSIVE FirstFree(_, _)
FirstFree(used, n) == IF n \in used THEN FirstFree(used, n + 1) ELSE n

FreshGen(reg, maps) == FirstFree(GensInUse(reg, maps), 0)

EmptyMap == [k \in {} |-> Handler("", "", 0)]

\* Map.prototype.set for every key of m2
MapSetAll(m1, m2) ==
  [k \in DOMAIN m1 \cup DOMAIN m2 |-> IF k \in DOMAIN m2 THEN m2[k] ELSE m1[k]]

\* inst.addEventListener(k, m[k]) / inst.removeEventListener(k, m[k]) for every k
AddAll(reg, inst, m) == reg \cup {<<inst, k, m[k]>> : k \in DOMAIN m}

\* RemoveAll with every removal missing its handler
RemoveAll_Misses(reg, inst, m) == reg

RemoveAll(reg, inst, m) == reg \ {<<inst, k, m[k]>> : k \in DOMAIN m}

\* ------------------------------------------------------- useViewerEvents

TRACKED_EVENTS ==
  {"viewState.change", "viewState.currentPageIndex.change", "viewState.zoom.change",
   "annotations.change", "annotations.create", "annotations.update",
   "annotations.delete", "annotations.load", "document.change",
   "textSelection.change"}

\* StartListeningOn without the isListening guard
StartListeningOn_NoGuard(inst, b) ==
  IF inst = None THEN b
  ELSE LET g == FreshGen(b.registry, {b.listeners})
           created == [k \in TRACKED_EVENTS |-> Handler("log", k, g)]
       IN [isListening |-> TRUE,
           listeners |-> MapSetAll(b.listeners, created),
           registry |-> AddAll(b.registry, inst, created)]

\* The bridge state b is [isListening, listeners, registry]; inst is the
\* value of instance.value when the function runs.
StartListeningOn(inst, b) ==
  IF inst = None \/ b.isListening THEN b
  ELSE LET g == FreshGen(b.registry, {b.listeners})
           created == [k \in TRACKED_EVENTS |-> Handler("log", k, g)]
       IN [isListening |-> TRUE,
           listeners |-> MapSetAll(b.listeners, created),
           registry |-> AddAll(b.registry, inst, created)]

StopListeningOn(inst, b) ==
  IF inst = None \/ ~b.isListening THEN b
  ELSE [isListening |-> FALSE,
        listeners |-> EmptyMap,
        registry |-> RemoveAll(b.registry, inst, b.listeners)]

\* EventsWatch forgetting the old instance: the map is cleared, the
\* handlers stay on oldInstance
EventsWatch_KeepsOld(newInstance, oldInstance, b) ==
  LET cleaned == IF oldInstance # None /\ b.isListening
                 THEN [b EXCEPT !.isListening = FALSE, !.listeners = EmptyMap]
                 ELSE b
  IN IF newInstance # None THEN StartListeningOn(newInstance, cleaned) ELSE cleaned

\* the callback of watch(instance, ...)
EventsWatch(newInstance, oldInstance, b) ==
  LET cleaned == IF oldInstance # None /\ b.isListening
                 THEN [isListening |-> FALSE,
                       listeners |-> EmptyMap,
                       registry |-> RemoveAll(b.registry, oldInstance, b.listeners)]
                 ELSE b
  IN IF newInstance # None THEN StartListeningOn(newInstance, cleaned) ELSE cleaned

\* ------------------------------------------------------ useViewerActions

extractZoomValue(zoom) ==
  IF zoom.t = "number" THEN zoom
  ELSE IF zoom.t = "object" THEN Str(zoom.s)
  ELSE IF zoom.t = "string" THEN zoom
  ELSE Num(100)

\* The mirror state m is [currentPage, totalPages, currentZoom,
\* eventHandlers, registry]; vs and total are inst.viewState and
\* inst.totalPageCount.
setupEventListeners(inst, vs, total, m) ==
  LET g == FreshGen(m.registry, {m.eventHandlers})
      created == [k \in {"viewState.currentPageIndex.change", "viewState.zoom.change"} |->
                    IF k = "viewState.currentPageIndex.change"
                    THEN Handler("page", k, g) ELSE Handler("zoom", k, g)]
  IN [currentPage |-> vs.currentPageIndex,
      totalPages |-> total,
      currentZoom |-> extractZoomValue(vs.zoom),
      eventHandlers |-> MapSetAll(m.eventHandlers, created),
      registry |-> AddAll(m.registry, inst, created)]

cleanupEventListeners(inst, m) ==
  [m EXCEPT !.eventHandlers = EmptyMap,
            !.registry = RemoveAll(m.registry, inst, m.eventHandlers)]

\* the callback of watch(instance, ...)
ActionsWatch(newInstance, oldInstance, vs, total, m) ==
  LET cleaned == IF oldInstance # None THEN cleanupEventListeners(oldInstance, m) ELSE m
  IN IF newInstance # None
     THEN setupEventListeners(newInstance, vs, total, cleaned)
     ELSE [cleaned EXCEPT !.currentPage = 0, !.totalPages = 0, !.currentZoom = Num(100)]

\* Both watchers run when instance.value was written with a different
\* value.  A new instance is bound in the step in which the engine hands it
\* out, so the view state the mirror reads from it is its initial one.
InstanceWritten(oldInstance, newInstance) ==
  IF oldInstance = newInstance THEN UNCHANGED bridgeVars
  ELSE LET b == EventsWatch(newInstance, oldInstance,
                  [isListening |-> isListening, listeners |-> listeners,
                   registry |-> registry])
           total == IF newInstance # None
                    THEN PageCount(calls[newInstance].documentId) ELSE 0
           m == ActionsWatch(newInstance, oldInstance, InitialViewState, total,
                  [currentPage |-> currentPage, totalPages |-> totalPages,
                   currentZoom |-> currentZoom, eventHandlers |-> eventHandlers,
                   registry |-> b.registry])
       IN /\ isListening' = b.isListening
          /\ listeners' = b.listeners
          /\ currentPage' = m.currentPage
          /\ totalPages' = m.totalPages
          /\ currentZoom' = m.currentZoom
          /\ eventHandlers' = m.eventHandlers
          /\ registry' = m.registry
          /\ UNCHANGED <<events, eventCounter>>

\* --------------------------------------------------- the viewing engine

\* NutrientViewer.unload(s): the call either throws at once or starts
\* unloading what is on s; the unloading ends in EngineUnloadDone
EngineUnloadCall(s, throws) ==
  /\ unloadCalls' = [unloadCalls EXCEPT ![s] = @ + 1]
  /\ engUnloading' = IF throws THEN engUnloading ELSE engUnloading \cup LoadedOn(s)
  /\ UNCHANGED engLoaded

EngineUnloadDone(i) ==
  /\ i \in engUnloading
  /\ engLoaded' = engLoaded \ {i}
  /\ engUnloading' = engUnloading \ {i}
  /\ UNCHANGED <<searchVars, outerVars>>
  /\ lastOp' = Op("engineUnloadDone")
  /\ UNCHANGED <<sessionVars, calls, unloadCalls, bridgeVars>>

\* ------------------------------------------------------ useNutrientViewer

NoConfig == [container |-> NoSurface, documentId |-> "", jwt |-> NoToken]

\* unload() passes its guard
UnloadPasses == containerRef # NoSurface /\ instance # None

\* load(container, documentId, layer), up to the token request; throws
\* says whether the engine's unload call throws
Load(container, documentId, layer, throws) ==
  /\ Len(calls) < MaxCalls
  /\ LET released == IF UnloadPasses THEN instance ELSE None
         instance1 == IF UnloadPasses THEN None ELSE instance
     IN /\ IF UnloadPasses
           THEN EngineUnloadCall(containerRef, throws)
           ELSE throws = FALSE /\ UNCHANGED engineVars
        /\ instance' = instance1
        /\ isLoading' = TRUE
        /\ error' = NoError
        /\ containerRef' = container
        /\ currentDocumentId' = documentId
        /\ currentLayer' = OrNull(layer)
        /\ calls' = Append(calls,
             [container |-> container, documentId |-> documentId, layer |-> layer,
              pc |-> "fetching", body |-> JwtBody(documentId, layer),
              jwt |-> NoToken, config |-> NoConfig, result |-> NoError,
              released |-> released,
              during |-> {c \in DOMAIN calls : InFlight(c)}])
        /\ InstanceWritten(instance, instance1)
  /\ UNCHANGED <<searchVars, outerVars>>
  /\ lastOp' = Op("load")

\* unload()
Unload(throws) ==
  /\ IF UnloadPasses
     THEN /\ EngineUnloadCall(containerRef, throws)
          /\ instance' = None
          /\ containerRef' = NoSurface
          /\ InstanceWritten(instance, None)
     ELSE /\ throws = FALSE
          /\ UNCHANGED <<instance, containerRef, engineVars, bridgeVars>>
  /\ UNCHANGED <<searchVars, outerVars>>
  /\ lastOp' = Op("unload")
  /\ UNCHANGED <<isLoading, error, currentDocumentId, currentLayer, calls>>

\* the token request of call c is answered with a token; load goes on to
\* ask the engine for an instance
TokenResolve(c) ==
  /\ c \in DOMAIN calls
  /\ calls[c].pc = "fetching"
  /\ LET jwt == IssueToken(calls[c].body, c)
     IN calls' = [calls EXCEPT ![c].pc = "instantiating",
                               ![c].jwt = jwt,
                               ![c].config = [container |-> calls[c].container,
                                              documentId |-> calls[c].documentId,
                                              jwt |-> jwt]]
  /\ UNCHANGED <<searchVars, outerVars>>
  /\ lastOp' = Op("tokenResolve")
  /\ UNCHANGED <<sessionVars, engineVars, bridgeVars>>

\* the catch and finally blocks of load
LoadFails(c, cause) ==
  /\ error' = ToError(cause)
  /\ isLoading' = FALSE
  /\ calls' = [calls EXCEPT ![c].pc = "rejected", ![c].result = ToError(cause)]
  /\ UNCHANGED <<instance, containerRef, currentDocumentId, currentLayer>>
  /\ UNCHANGED <<engineVars, bridgeVars>>

\* the token request of call c fails (a response that is not ok, or no response)
TokenReject(c) ==
  /\ c \in DOMAIN calls
  /\ calls[c].pc = "fetching"
  /\ LoadFails(c, [kind |-> "token", call |-> c, isError |-> TRUE])
  /\ UNCHANGED <<searchVars, outerVars>>
  /\ lastOp' = Op("tokenReject")

\* the engine resolves the load of call c with a new instance
EngineResolve(c) ==
  /\ c \in DOMAIN calls
  /\ calls[c].pc = "instantiating"
  /\ engLoaded' = engLoaded \cup {c}
  /\ calls' = [calls EXCEPT ![c].pc = "resolved"]
  /\ instance' = c
  /\ isLoading' = FALSE
  /\ InstanceWritten(instance, c)
  /\ UNCHANGED <<searchVars, outerVars>>
  /\ lastOp' = Op("engineResolve")
  /\ UNCHANGED <<error, containerRef, currentDocumentId, currentLayer>>
  /\ UNCHANGED <<engUnloading, unloadCalls>>

\* the engine rejects the load of call c
EngineReject(c) ==
  /\ c \in DOMAIN calls
  /\ calls[c].pc = "instantiating"
  /\ LoadFails(c, [kind |-> "engine", call |-> c, isError |-> TRUE])
  /\ UNCHANGED <<searchVars, outerVars>>
  /\ lastOp' = Op("engineReject")

\* ------------------------------------------- useViewerEvents operations

BridgeState == [isListening |-> isListening, listeners |-> listeners, registry |-> registry]

\* startListening()
StartListening ==
  /\ LET b == StartListeningOn(instance, BridgeState)
     IN /\ isListening' = b.isListening
        /\ listeners' = b.listeners
        /\ registry' = b.registry
  /\ UNCHANGED <<searchVars, outerVars>>
  /\ lastOp' = [Op("startListening") EXCEPT !.guarded = (instance = None \/ isListening)]
  /\ UNCHANGED <<sessionVars, calls, engineVars, events, eventCounter, actionsVars>>

\* stopListening()
StopListening ==
  /\ LET b == StopListeningOn(instance, BridgeState)
     IN /\ isListening' = b.isListening
        /\ listeners' = b.listeners
        /\ registry' = b.registry
  /\ UNCHANGED <<searchVars, outerVars>>
  /\ lastOp' = [Op("stopListening") EXCEPT !.guarded = (instance = None \/ ~isListening)]
  /\ UNCHANGED <<sessionVars, calls, engineVars, events, eventCounter, actionsVars>>

\* clearEvents that also marks the bridge as not listening
ClearEvents_Pauses ==
  /\ events' = <<>>
  /\ isListening' = FALSE
  /\ UNCHANGED <<searchVars, outerVars>>
  /\ lastOp' = Op("clearEvents")
  /\ UNCHANGED <<sessionVars, calls, engineVars, registry, listeners, eventCounter,
                 actionsVars>>

\* clearEvents()
ClearEvents ==
  /\ events' = <<>>
  /\ UNCHANGED <<searchVars, outerVars>>
  /\ lastOp' = Op("clearEvents")
  /\ UNCHANGED <<sessionVars, calls, engineVars, registry, isListening, listeners,
                 eventCounter, actionsVars>>

\* ------------------------------------------------------- engine events

\* LogHandler without the slice to maxEvents
LogHandler_NoCut(eventType, st) ==
  [st EXCEPT !.eventCounter = st.eventCounter + 1,
             !.events = <<[id |-> st.eventCounter + 1, type |-> eventType]>> \o st.events]

\* the handler made by createEventHandler(eventType): a record is put in
\* front of the log and the log is cut to maxEvents
LogHandler(eventType, st) ==
  LET event == [id |-> st.eventCounter + 1, type |-> eventType]
      all == <<event>> \o st.events
  IN [st EXCEPT !.eventCounter = st.eventCounter + 1,
                !.events = SubSeq(all, 1, IF Len(all) < maxEvents THEN Len(all) ELSE maxEvents)]

\* one registered handler h runs with the payload of the event
RunHandler(h, page, zoom, st) ==
  IF h[1] = "log" THEN LogHandler(h[2], st)
  ELSE IF h[1] = "page" THEN [st EXCEPT !.currentPage = page]
  ELSE [st EXCEPT !.currentZoom = extractZoomValue(zoom)]

RECURSIVE RunHandlers(_, _, _, _)
RunHandlers(hs, page, zoom, st) ==
  IF hs = {} THEN st
  ELSE LET h == CHOOSE x \in hs : \A y \in hs : x[3] <= y[3]
       IN RunHandlers(hs \ {h}, page, zoom, RunHandler(h, page, zoom, st))

\* instance i emits an event of the given kind: every handler registered
\* on i for that kind runs
Dispatch(i, kind, page, zoom) ==
  LET hs == {e[3] : e \in {x \in registry : x[1] = i /\ x[2] = kind}}
      st == RunHandlers(hs, page, zoom,
              [events |-> events, eventCounter |-> eventCounter,
               currentPage |-> currentPage, currentZoom |-> currentZoom])
  IN /\ st.eventCounter <= MaxRecords
     /\ events' = st.events
     /\ eventCounter' = st.eventCounter
     /\ currentPage' = st.currentPage
     /\ currentZoom' = st.currentZoom
     /\ UNCHANGED <<searchVars, outerVars>>
     /\ lastOp' = [Op("emit") EXCEPT !.inst = i, !.kind = kind, !.page = page, !.zoom = zoom]
     /\ UNCHANGED <<sessionVars, calls, engineVars, registry, isListening, listeners,
                    totalPages, eventHandlers>>

Created(i) == i \in DOMAIN calls /\ calls[i].pc = "resolved"

\* instance i reports that it moved to page `page`
EmitPageChange(i, page) ==
  /\ Created(i)
  /\ page < PageCount(calls[i].documentId)
  /\ Dispatch(i, "viewState.currentPageIndex.change", page, Other)

\* instance i reports that its zoom changed to `zoom`
EmitZoomChange(i, zoom) ==
  /\ Created(i)
  /\ Dispatch(i, "viewState.zoom.change", 0, zoom)

\* --------------------------------------------- useViewerActions facade

\* zoom values are counted in hundredths: 25 is 0.25, 10 is 0.1, 1000 is 10
ZOOM_STEP == 25
MIN_ZOOM == 10
MAX_ZOOM == 1000

Min(a, b) == IF a < b THEN a ELSE b
Max(a, b) == IF a > b THEN a ELSE b

\* one call on instance i of the engine: a view-state update carries the
\* page index or the zoom it sets, a search-state update the results and
\* the focused index it sets, a jump the page and the rects whose union
\* it goes to
EngineCall(name, i) ==
  [call |-> name, inst |-> i, page |-> 0,
   zoom |-> [t |-> "other", n |-> 0, s |-> ""],
   index |-> 0, search |-> 0, rects |-> <<>>]

\* goToPage without the lower bound
clampedIndex_NoFloor(pageIndex, total) == Min(pageIndex, total - 1)

\* Math.max(0, Math.min(pageIndex, totalPages.value - 1))
clampedIndex(pageIndex, total) == Max(0, Min(pageIndex, total - 1))

\* the engine calls of goToPage(pageIndex)
goToPage(pageIndex) ==
  IF instance = None THEN <<>>
  ELSE <<[EngineCall("setViewState.currentPageIndex", instance) EXCEPT
            !.page = clampedIndex(pageIndex, totalPages)]>>

\* the engine calls of setZoom(zoom)
setZoom(zoom) ==
  IF instance = None THEN <<>>
  ELSE <<[EngineCall("setViewState.zoom", instance) EXCEPT !.zoom = zoom]>>

\* zoomIn doing arithmetic on whatever the cell holds
zoomInTarget_Adds(current) == Num(Min(current.n + ZOOM_STEP, MAX_ZOOM))

\* the zoom zoomIn() asks for when the mirrored zoom is `current`
zoomInTarget(current) ==
  IF current.t = "number" THEN Num(Min(current.n + ZOOM_STEP, MAX_ZOOM))
  ELSE Num(125)

\* the zoom zoomOut() asks for when the mirrored zoom is `current`
zoomOutTarget(current) ==
  IF current.t = "number" THEN Num(Max(current.n - ZOOM_STEP, MIN_ZOOM))
  ELSE Num(75)

\* what an operation of the facade leaves alone: it only talks to the engine
facadeFrame == <<sessionVars, calls, engineVars, bridgeVars, outerVars>>

\* goToPage that writes the page it asks for into the mirrored cell
GoToPage_Optimistic(pageIndex) ==
  /\ UNCHANGED <<searchVars, outerVars>>
  /\ lastOp' = [Op("goToPage") EXCEPT !.arg = pageIndex, !.guarded = (instance = None),
                                    !.engine = goToPage(pageIndex)]
  /\ currentPage' = IF instance = None THEN currentPage
                    ELSE clampedIndex(pageIndex, totalPages)
  /\ UNCHANGED <<sessionVars, calls, engineVars, registry, eventsVars, totalPages,
                 currentZoom, eventHandlers>>

GoToPage(pageIndex) ==
  /\ UNCHANGED <<searchVars, outerVars>>
  /\ lastOp' = [Op("goToPage") EXCEPT !.arg = pageIndex, !.guarded = (instance = None),
                                    !.engine = goToPage(pageIndex)]
  /\ UNCHANGED facadeFrame

GoToNextPage ==
  /\ UNCHANGED <<searchVars, outerVars>>
  /\ lastOp' = [Op("goToNextPage") EXCEPT !.guarded = (instance = None),
                                        !.engine = goToPage(currentPage + 1)]
  /\ UNCHANGED facadeFrame

GoToPreviousPage ==
  /\ UNCHANGED <<searchVars, outerVars>>
  /\ lastOp' = [Op("goToPreviousPage") EXCEPT !.guarded = (instance = None),
                                            !.engine = goToPage(currentPage - 1)]
  /\ UNCHANGED facadeFrame

GoToFirstPage ==
  /\ UNCHANGED <<searchVars, outerVars>>
  /\ lastOp' = [Op("goToFirstPage") EXCEPT !.guarded = (instance = None),
                                         !.engine = goToPage(0)]
  /\ UNCHANGED facadeFrame

GoToLastPage ==
  /\ UNCHANGED <<searchVars, outerVars>>
  /\ lastOp' = [Op("goToLastPage") EXCEPT !.guarded = (instance = None),
                                        !.engine = goToPage(totalPages - 1)]
  /\ UNCHANGED facadeFrame

SetZoom(zoom) ==
  /\ UNCHANGED <<searchVars, outerVars>>
  /\ lastOp' = [Op("setZoom") EXCEPT !.zoom = zoom, !.guarded = (instance = None),
                                   !.engine = setZoom(zoom)]
  /\ UNCHANGED facadeFrame

ZoomIn ==
  /\ UNCHANGED <<searchVars, outerVars>>
  /\ lastOp' = [Op("zoomIn") EXCEPT !.guarded = (instance = None),
                                  !.engine = IF instance = None THEN <<>>
                                             ELSE setZoom(zoomInTarget(currentZoom))]
  /\ UNCHANGED facadeFrame

ZoomOut ==
  /\ UNCHANGED <<searchVars, outerVars>>
  /\ lastOp' = [Op("zoomOut") EXCEPT !.guarded = (instance = None),
                                   !.engine = IF instance = None THEN <<>>
                                              ELSE setZoom(zoomOutTarget(currentZoom))]
  /\ UNCHANGED facadeFrame

FitToWidth ==
  /\ UNCHANGED <<searchVars, outerVars>>
  /\ lastOp' = [Op("fitToWidth") EXCEPT !.guarded = (instance = None),
                                      !.engine = setZoom(Str("FIT_TO_WIDTH"))]
  /\ UNCHANGED facadeFrame

FitToPage ==
  /\ UNCHANGED <<searchVars, outerVars>>
  /\ lastOp' = [Op("fitToPage") EXCEPT !.guarded = (instance = None),
                                     !.engine = setZoom(Str("FIT_TO_VIEWPORT"))]
  /\ UNCHANGED facadeFrame

\* --------------------------------------------------------------- search

\* a query is a sequence of characters; " " is the whitespace character
RECURSIVE trimStart(_)
trimStart(q) == IF q # <<>> /\ Head(q) = " " THEN trimStart(Tail(q)) ELSE q

RECURSIVE trimEnd(_)
trimEnd(q) ==
  IF q # <<>> /\ q[Len(q)] = " " THEN trimEnd(SubSeq(q, 1, Len(q) - 1)) ELSE q

\* a trim that removes nothing
trim_Nothing(q) == q

\* query.trim()
trim(q) == trimEnd(trimStart(q))

\* a search result: its page and the rects of the match on that page
Result(pageIndex, rectsOnPage) == [pageIndex |-> pageIndex, rectsOnPage |-> rectsOnPage]

\* the result lists the engine may answer a search of document d with: no
\* match, a match without rects on the last page, or a match with rects
\* on the first page followed by that one
SearchOutcomes(d) ==
  LET withRects == Result(0, <<1, 2>>)
      noRects == Result(PageCount(d) - 1, <<>>)
  IN {<<>>, <<noRects>>, <<withRects, noRects>>}

\* setSearchState that focuses the result after the one asked for
setSearchState_Next(k, focused) ==
  [EngineCall("setSearchState", instance) EXCEPT !.search = k, !.index = focused + 1]

\* instance.value.setSearchState(...) as issued for search k
setSearchState(k, focused) ==
  [EngineCall("setSearchState", instance) EXCEPT !.search = k, !.index = focused]

\* instance.value.jumpToRect(pageIndex, Rect.union(rects)) for search k
jumpToRect(k, result) ==
  [EngineCall("jumpToRect", instance) EXCEPT
     !.search = k, !.page = result.pageIndex, !.rects = result.rectsOnPage]

\* search(query): the guard returns the navigator that does nothing;
\* otherwise the engine is asked and the call waits for the answer
Search(query) ==
  /\ Len(searches) < MaxSearches
  /\ LET k == Len(searches) + 1
         guarded == instance = None \/ trim(query) = <<>>
     IN /\ searches' = Append(searches,
             [on |-> IF guarded THEN None ELSE instance,
              pc |-> IF guarded THEN "done" ELSE "searching",
              results |-> <<>>,
              nav |-> IF guarded THEN "empty" ELSE "pending"])
        /\ lastOp' = [Op("search") EXCEPT
                        !.arg = k, !.query = query, !.guarded = guarded,
                        !.engine = IF guarded THEN <<>>
                                   ELSE <<[EngineCall("search", instance) EXCEPT !.search = k]>>]
  /\ UNCHANGED facadeFrame

\* a rejected search that is thrown on to the caller
SearchReject_Rethrows(k) ==
  /\ k \in DOMAIN searches
  /\ searches[k].pc = "searching"
  /\ searches' = [searches EXCEPT ![k].pc = "done", ![k].nav = "thrown"]
  /\ lastOp' = [Op("searchReject") EXCEPT !.arg = k, !.threw = TRUE]
  /\ UNCHANGED facadeFrame

\* the engine rejects the search of call k: the catch block returns the
\* navigator that does nothing
SearchReject(k) ==
  /\ k \in DOMAIN searches
  /\ searches[k].pc = "searching"
  /\ searches' = [searches EXCEPT ![k].pc = "done", ![k].nav = "empty"]
  /\ lastOp' = [Op("searchReject") EXCEPT !.arg = k]
  /\ UNCHANGED facadeFrame

\* the engine answers the search of call k with the list `results`.  With
\* no instance bound the read of instance.value.setSearchState throws and
\* the catch block returns the navigator that does nothing.  Otherwise the
\* search state of the bound instance is set and, when the first result
\* has rects, the call jumps to them and waits for the jump.
SearchResolve(k, results) ==
  /\ k \in DOMAIN searches
  /\ searches[k].pc = "searching"
  /\ results \in SearchOutcomes(calls[searches[k].on].documentId)
  /\ IF instance = None
     THEN /\ searches' = [searches EXCEPT ![k].pc = "done", ![k].nav = "empty"]
          /\ lastOp' = [Op("searchResolve") EXCEPT !.arg = k, !.threw = TRUE]
     ELSE LET jumps == results # <<>> /\ Len(results[1].rectsOnPage) > 0
          IN /\ searches' =
                  [searches EXCEPT ![k].results = results,
                                   ![k].pc = IF jumps THEN "jumping" ELSE "done",
                                   ![k].nav = IF jumps THEN "pending" ELSE "results"]
             /\ lastOp' = [Op("searchResolve") EXCEPT
                             !.arg = k,
                             !.engine = <<setSearchState(k, 0)>> \o
                                        (IF jumps THEN <<jumpToRect(k, results[1])>> ELSE <<>>)]
  /\ UNCHANGED facadeFrame

\* the jump to the first result of search k is done: the navigator over
\* the results is returned
JumpResolve(k) ==
  /\ k \in DOMAIN searches
  /\ searches[k].pc = "jumping"
  /\ searches' = [searches EXCEPT ![k].pc = "done", ![k].nav = "results"]
  /\ lastOp' = [Op("jumpResolve") EXCEPT !.arg = k]
  /\ UNCHANGED facadeFrame

\* the jump to the first result of search k is rejected: the catch block
\* returns no results and the navigator that does nothing
JumpReject(k) ==
  /\ k \in DOMAIN searches
  /\ searches[k].pc = "jumping"
  /\ searches' = [searches EXCEPT ![k].pc = "done", ![k].nav = "empty", ![k].results = <<>>]
  /\ lastOp' = [Op("jumpReject") EXCEPT !.arg = k]
  /\ UNCHANGED facadeFrame

\* goToResult that does not test its index
goToResult_NoRange(k, index) ==
  IF searches[k].nav = "empty" \/ instance = None THEN <<>>
  ELSE <<setSearchState(k, index)>>

\* the engine calls of the goToResult(index) that search k returned
goToResult(k, index) ==
  LET results == searches[k].results
  IN IF searches[k].nav = "empty" THEN <<>>
     ELSE IF instance = None \/ index < 0 \/ index >= Len(results) THEN <<>>
     ELSE LET result == results[index + 1]
          IN <<setSearchState(k, index)>> \o
             (IF Len(result.rectsOnPage) > 0 THEN <<jumpToRect(k, result)>>
              ELSE [i \in 1 .. 1 |-> [goToPage(result.pageIndex)[i] EXCEPT !.search = k]])

\* a caller uses the navigator that search k returned
GoToResult(k, index) ==
  /\ k \in DOMAIN searches
  /\ searches[k].pc = "done"
  /\ lastOp' = [Op("goToResult") EXCEPT
                  !.arg = k, !.index = index, !.engine = goToResult(k, index)]
  /\ UNCHANGED <<facadeFrame, searchVars>>

\* --------------------------------------------------------------- export

\* an export that asks the engine whether or not an instance is bound
exportOp_Unguarded(name, call) ==
  [Op(name) EXCEPT !.engine = <<EngineCall(call, instance)>>]

\* exportPdf / exportInstantJson / exportXfdf: the call throws
\* 'Viewer not initialized' without an instance and otherwise asks the
\* instance for the payload
exportOp(name, call) ==
  IF instance = None THEN [Op(name) EXCEPT !.threw = TRUE]
  ELSE [Op(name) EXCEPT !.engine = <<EngineCall(call, instance)>>]

ExportPdf ==
  /\ UNCHANGED <<searchVars, outerVars>>
  /\ lastOp' = exportOp("exportPdf", "exportPDF")
  /\ UNCHANGED facadeFrame

ExportInstantJson ==
  /\ UNCHANGED <<searchVars, outerVars>>
  /\ lastOp' = exportOp("exportInstantJson", "exportInstantJSON")
  /\ UNCHANGED facadeFrame

ExportXfdf ==
  /\ UNCHANGED <<searchVars, outerVars>>
  /\ lastOp' = exportOp("exportXfdf", "exportXFDF")
  /\ UNCHANGED facadeFrame

\* ------------------------------------------------- the token endpoint

\* a value of a request body that is not a string (a number, an object)
NotAString == "<not-a-string>"

\* typeof v === 'string'
IsString(v) == v \notin {Undefined, Null, NotAString}

\* the truth value JavaScript gives v
Truthy(v) == v \notin {Undefined, Null, ""}

\* a text is the sequence of its words; String.prototype.includes for a word
includes(text, word) == \E i \in 1 .. Len(text) : text[i] = word

\* the optional `permissions` field: <<>> when it is not sent, <<p>> when
\* the list p is sent
NoPermissions == <<>>
DefaultPermissions == <<"read-document", "write", "download">>

\* what a handler does: it returns a value or throws an error; an error
\* made by createError carries its status code, any other error is
\* answered with status 500
NoPayload == [document_id |-> "", permissions |-> <<>>, layer |-> NoClaim]
Returned(payload) ==
  [threw |-> FALSE, h3 |-> FALSE, statusCode |-> 200, message |-> <<>>,
   signed |-> TRUE, payload |-> payload]
Thrown(h3, statusCode, message) ==
  [threw |-> TRUE, h3 |-> h3, statusCode |-> statusCode, message |-> message,
   signed |-> FALSE, payload |-> NoPayload]
createError(statusCode, message) == Thrown(TRUE, statusCode, message)
StatusOf(outcome) ==
  IF ~outcome.threw THEN 200
  ELSE IF outcome.h3 THEN outcome.statusCode ELSE 500

\* new Error('DE_JWT_PRIVATE_KEY environment variable is not set')
KeyMissing ==
  Thrown(FALSE, 500, <<"DE_JWT_PRIVATE_KEY", "environment", "variable", "is", "not", "set">>)

\* generateDocumentEngineJWT(documentId): the signed payload
generateDocumentEngineJWT(documentId, hasKey) ==
  IF ~hasKey THEN KeyMissing
  ELSE Returned([document_id |-> documentId, permissions |-> DefaultPermissions,
                 layer |-> NoClaim])

\* generateJWTWithPermissions(documentId, permissions)
generateJWTWithPermissions(documentId, permissions, hasKey) ==
  IF ~hasKey THEN KeyMissing
  ELSE Returned([document_id |-> documentId, permissions |-> permissions,
                 layer |-> NoClaim])

\* generateJWTForLayer(documentId, layerName, permissions): claims.layer is
\* set whenever layerName is not null
generateJWTForLayer(documentId, layerName, permissions, hasKey) ==
  IF ~hasKey THEN KeyMissing
  ELSE Returned([document_id |-> documentId,
                 permissions |-> IF permissions = NoPermissions
                                 THEN DefaultPermissions ELSE permissions[1],
                 layer |-> IF layerName # Null THEN layerName ELSE NoClaim])

\* the validation of the route that lets every request through
validDocumentId_Any(body) == TRUE

\* !(!body?.documentId || typeof body.documentId !== 'string')
validDocumentId(body) == Truthy(body.documentId) /\ IsString(body.documentId)

\* the try block of the handler of POST /api/jwt
jwtRouteTry(body, hasKey) ==
  IF ~validDocumentId(body)
  THEN createError(400, <<"documentId", "is", "required", "and", "must", "be", "a", "string">>)
  ELSE IF IsString(body.layer)
  THEN generateJWTForLayer(body.documentId, body.layer, body.permissions, hasKey)
  ELSE IF body.permissions # NoPermissions
  THEN generateJWTWithPermissions(body.documentId, body.permissions[1], hasKey)
  ELSE generateDocumentEngineJWT(body.documentId, hasKey)

\* the handler of POST /api/jwt: an error that names the key is answered
\* with status 500, any other error is thrown on
jwtRoute(body, hasKey) ==
  LET outcome == jwtRouteTry(body, hasKey)
  IN IF outcome.threw /\ includes(outcome.message, "DE_JWT_PRIVATE_KEY")
     THEN createError(500, <<"Server", "not", "configured">>)
     ELSE outcome

\* JSON.stringify(body) of fetchJWT: the layer is a field only when truthy
fetchJWTRequest(documentId, layer) ==
  [documentId |-> documentId,
   layer |-> IF JwtBody(documentId, layer).layer = NoClaim
             THEN Undefined ELSE JwtBody(documentId, layer).layer,
   permissions |-> NoPermissions]

\* JSON.stringify({ documentId: docId, layer: layerName }) of getLayerJWT
getLayerJWTRequest(docId, layerName) ==
  [documentId |-> docId, layer |-> layerName, permissions |-> NoPermissions]

NoExchange ==
  [path |-> "none", body |-> getLayerJWTRequest("", Undefined), hasKey |-> FALSE,
   asked |-> Undefined, status |-> 0, signed |-> FALSE, payload |-> NoPayload]

\* one request to the route and its answer; asked is the layer the client
\* was asked for
Exchange(path, asked, body, hasKey) ==
  LET outcome == jwtRoute(body, hasKey)
  IN [path |-> path, body |-> body, hasKey |-> hasKey, asked |-> asked,
      status |-> StatusOf(outcome), signed |-> outcome.signed,
      payload |-> outcome.payload]

\* a request with any body
PostJwt(body, hasKey) ==
  /\ jwtExchange' = Exchange("direct", body.layer, body, hasKey)
  /\ lastOp' = Op("postJwt")
  /\ UNCHANGED <<restVars, directoryVars>>

\* the request of fetchJWT(documentId, layer) of the session manager
PostJwtFromFetchJWT(documentId, layer, hasKey) ==
  /\ jwtExchange' = Exchange("fetchJWT", layer, fetchJWTRequest(documentId, layer), hasKey)
  /\ lastOp' = Op("postJwt")
  /\ UNCHANGED <<restVars, directoryVars>>

\* the request of getLayerJWT(layerName) of the layer directory
PostJwtFromGetLayerJWT(docId, layerName, hasKey) ==
  /\ jwtExchange' = Exchange("getLayerJWT", layerName, getLayerJWTRequest(docId, layerName), hasKey)
  /\ lastOp' = Op("postJwt")
  /\ UNCHANGED <<restVars, directoryVars>>

\* ---------------------------------------------------- the layer directory

\* the characters of the layer names used here
Chars(name) ==
  CASE name = "" -> <<>>
    [] name = " " -> <<" ">>
    [] name = "L1" -> <<"L", "1">>
    [] OTHER -> <<"L", "2">>

\* an entry of the directory; displayName is 'Default' for the name '' and
\* the name otherwise and is left out; doc, created and token are not
\* fields of the program's entry: they record the document the entry was
\* fetched or created for, whether createLayer pushed it, and the token
\* request createLayer sent for it (0 for none)
Entry(name, isDefault, doc) ==
  [name |-> name, isDefault |-> isDefault, doc |-> doc, created |-> FALSE, token |-> 0]

Names(list) == [i \in DOMAIN list |-> list[i].name]

\* Array.prototype.includes / some
Has(names, name) == \E i \in DOMAIN names : names[i] = name

\* GET /api/documents/:id/layers on a successful answer of the backend:
\* the default layer is put in front when the backend does not list it
layersRoute(upstream) ==
  IF ~Has(upstream, "") THEN <<"">> \o upstream ELSE upstream

\* layerNames.map(name => ({ name, displayName, isDefault: name === '' }))
mapLayers(layerNames, doc) ==
  [i \in DOMAIN layerNames |-> Entry(layerNames[i], layerNames[i] = "", doc)]

\* the token requests of the entries createLayer pushed and returned a
\* token for
CreatedWithToken ==
  {layers[i].token : i \in {j \in DOMAIN layers :
      layers[j].token # 0 /\ layerTokens[layers[j].token].pc = "resolved"}}

\* fetchLayers() up to its await: without a document the directory is
\* emptied, otherwise the cells are set and the request is sent; had is
\* not a field of the program: it records the created entries at the call
fetchLayersCells ==
  IF propsDocumentId' = Null
  THEN /\ layers' = <<>>
       /\ UNCHANGED <<currentLayerName, layersLoading, layersError, layerFetches>>
  ELSE /\ Len(layerFetches) < MaxLayerFetches
       /\ layersLoading' = TRUE
       /\ layersError' = Null
       /\ layerFetches' = Append(layerFetches,
            [doc |-> propsDocumentId', pc |-> "fetching", had |-> CreatedWithToken])
       /\ UNCHANGED <<layers, currentLayerName>>

\* reset()
resetCells ==
  /\ layers' = <<>>
  /\ currentLayerName' = Null
  /\ layersError' = Null
  /\ UNCHANGED <<layersLoading, layerFetches>>

\* props.documentId changes and the watcher runs: fetchLayers() for a
\* document, reset() for none.  Mounting the selector with a document does
\* what the watcher does for the change from none to that document.
SetDocument(newId) ==
  /\ newId # propsDocumentId
  /\ propsDocumentId' = newId
  /\ IF newId # Null THEN fetchLayersCells ELSE resetCells
  /\ lastOp' = [Op("setDocument") EXCEPT !.kind = newId]
  /\ UNCHANGED <<restVars, issuerVars, layerTokens>>

\* fetchLayers()
FetchLayers ==
  /\ UNCHANGED propsDocumentId
  /\ fetchLayersCells
  /\ lastOp' = [Op("fetchLayers") EXCEPT !.guarded = (propsDocumentId = Null)]
  /\ UNCHANGED <<restVars, issuerVars, layerTokens>>

\* the proxy answers request f with the layers of the backend
FetchLayersResolve(f, upstream) ==
  /\ f \in DOMAIN layerFetches
  /\ layerFetches[f].pc = "fetching"
  /\ layerFetches' = [layerFetches EXCEPT ![f].pc = "resolved"]
  /\ layers' = mapLayers(layersRoute(upstream), layerFetches[f].doc)
  /\ currentLayerName' =
       IF currentLayerName = Null /\ Len(layers') > 0 THEN "" ELSE currentLayerName
  /\ layersLoading' = FALSE
  /\ lastOp' = [Op("fetchLayersResolve") EXCEPT !.arg = f, !.query = upstream]
  /\ UNCHANGED <<restVars, issuerVars, propsDocumentId, layersError, layerTokens>>

\* request f fails: the answer is not ok, or fetch rejects
FetchLayersReject(f) ==
  /\ f \in DOMAIN layerFetches
  /\ layerFetches[f].pc = "fetching"
  /\ layerFetches' = [layerFetches EXCEPT ![f].pc = "rejected"]
  /\ layersError' = "fetch-failed"
  /\ layers' = <<>>
  /\ layersLoading' = FALSE
  /\ lastOp' = [Op("fetchLayersReject") EXCEPT !.arg = f]
  /\ UNCHANGED <<restVars, issuerVars, propsDocumentId, currentLayerName, layerTokens>>

\* setCurrentLayer that also clears the error cell
SetCurrentLayer_ClearsError(layerName) ==
  /\ currentLayerName' = layerName
  /\ layersError' = Null
  /\ lastOp' = [Op("setCurrentLayer") EXCEPT !.kind = layerName]
  /\ UNCHANGED <<restVars, issuerVars, propsDocumentId, layers, layersLoading,
                 layerFetches, layerTokens>>

\* setCurrentLayer(layerName)
SetCurrentLayer(layerName) ==
  /\ currentLayerName' = layerName
  /\ lastOp' = [Op("setCurrentLayer") EXCEPT !.kind = layerName]
  /\ UNCHANGED <<restVars, issuerVars, propsDocumentId, layers, layersLoading,
                 layersError, layerFetches, layerTokens>>

\* getLayerJWT(layerName) up to its await: without a document it returns
\* null, otherwise the request is sent
getLayerJWTCells(layerName) ==
  IF propsDocumentId = Null
  THEN UNCHANGED layerTokens
  ELSE /\ Len(layerTokens) < MaxLayerTokens
       /\ layerTokens' = Append(layerTokens,
            [body |-> getLayerJWTRequest(propsDocumentId, layerName), pc |-> "posting",
             payload |-> NoPayload])

\* getLayerJWT(layerName)
GetLayerJWT(layerName) ==
  /\ getLayerJWTCells(layerName)
  /\ lastOp' = [Op("getLayerJWT") EXCEPT !.kind = layerName,
                                         !.guarded = (propsDocumentId = Null)]
  /\ UNCHANGED <<restVars, issuerVars, propsDocumentId, directoryCells, layerFetches>>

\* the test of createLayer for an empty name that does not trim
emptyName_Untrimmed(layerName) == Chars(layerName) = <<>>

\* !layerName.trim()
emptyName(layerName) == trim(Chars(layerName)) = <<>>

\* createLayer(layerName): an empty name and a name of the directory set
\* the error and return null; any other name is appended to the directory
\* and getLayerJWT(layerName) is returned
CreateLayer(layerName) ==
  /\ IF emptyName(layerName)
     THEN /\ layersError' = "name-empty"
          /\ UNCHANGED <<layers, layerTokens>>
     ELSE IF Has(Names(layers), layerName)
     THEN /\ layersError' = "name-exists"
          /\ UNCHANGED <<layers, layerTokens>>
     ELSE /\ layers' = Append(layers,
               [Entry(layerName, FALSE, propsDocumentId) EXCEPT
                  !.created = TRUE,
                  !.token = IF propsDocumentId = Null THEN 0 ELSE Len(layerTokens) + 1])
          /\ getLayerJWTCells(layerName)
          /\ UNCHANGED layersError
  /\ lastOp' = [Op("createLayer") EXCEPT
                  !.kind = layerName,
                  !.guarded = (emptyName(layerName) \/ Has(Names(layers), layerName)),
                  !.arg = Len(layerTokens') - Len(layerTokens)]
  /\ UNCHANGED <<restVars, issuerVars, propsDocumentId, currentLayerName, layersLoading,
                 layerFetches>>

\* the token endpoint answers request t of getLayerJWT: the token is
\* returned, or the answer is not ok and the error is set
LayerTokenAnswer(t, hasKey) ==
  /\ t \in DOMAIN layerTokens
  /\ layerTokens[t].pc = "posting"
  /\ jwtExchange' = Exchange("getLayerJWT", layerTokens[t].body.layer, layerTokens[t].body, hasKey)
  /\ IF jwtExchange'.status = 200
     THEN /\ layerTokens' = [layerTokens EXCEPT ![t].pc = "resolved",
                                                ![t].payload = jwtExchange'.payload]
          /\ UNCHANGED layersError
     ELSE /\ layerTokens' = [layerTokens EXCEPT ![t].pc = "rejected"]
          /\ layersError' = "token-failed"
  /\ lastOp' = [Op("layerTokenAnswer") EXCEPT !.arg = t]
  /\ UNCHANGED <<restVars, propsDocumentId, layers, currentLayerName, layersLoading,
                 layerFetches>>

\* reset()
Reset ==
  /\ resetCells
  /\ lastOp' = Op("reset")
  /\ UNCHANGED <<restVars, issuerVars, propsDocumentId, layerTokens>>

\* ------------------------------------------------- the document routes

\* the answer of the storage backend to the request a route forwards: the
\* backend cannot be reached (fetch rejects), or it answers with a status,
\* a status text and a body
Backend(reachable, status, statusText, body) ==
  [reachable |-> reachable, status |-> status, statusText |-> statusText, body |-> body]

\* response.ok
ok(status) == status >= 200 /\ status <= 299

\* the value a route returns without throwing
Answered ==
  [threw |-> FALSE, h3 |-> FALSE, statusCode |-> 200, message |-> <<>>,
   signed |-> FALSE, payload |-> NoPayload]

\* the TypeError of a fetch that cannot reach the backend
FetchFailed == Thrown(FALSE, 500, <<"fetch", "failed">>)

\* the try block of a route: an answer that is not ok is thrown as an
\* error with the status of the backend and with the text the route reads
\* (the body for the upload, the status text otherwise)
proxyTry(route, backend) ==
  IF ~backend.reachable THEN FetchFailed
  ELSE IF ~ok(backend.status)
  THEN createError(backend.status,
         <<"Document", "Engine", "error:">> \o
           (IF route = "upload" THEN backend.body ELSE backend.statusText))
  ELSE Answered

\* the catch block of a route: an Error whose message includes 'fetch' is
\* answered with 503, any other error is thrown on
remap(outcome) ==
  IF outcome.threw /\ includes(outcome.message, "fetch")
  THEN createError(503, <<"Document", "Engine", "not", "available">>)
  ELSE outcome

NoProxyExchange ==
  [route |-> "none", given |-> FALSE, backend |-> Backend(FALSE, 0, <<>>, <<>>),
   status |-> 0]

\* POST /api/documents: without a file the answer is 400 and nothing is
\* forwarded
PostDocuments(given, backend) ==
  /\ proxyExchange' =
       [route |-> "upload", given |-> given, backend |-> backend,
        status |-> IF ~given THEN 400 ELSE StatusOf(remap(proxyTry("upload", backend)))]
  /\ lastOp' = Op("postDocuments")
  /\ UNCHANGED <<viewerVars, issuerVars, directoryVars, annotationVars, extraVars>>

\* GET /api/documents/:id/layers: without an id the answer is 400
GetLayers(given, backend) ==
  /\ proxyExchange' =
       [route |-> "layers", given |-> given, backend |-> backend,
        status |-> IF ~given THEN 400 ELSE StatusOf(remap(proxyTry("layers", backend)))]
  /\ lastOp' = Op("getLayers")
  /\ UNCHANGED <<viewerVars, issuerVars, directoryVars, annotationVars, extraVars>>

\* DELETE /api/documents/:id: without an id the answer is 400
DeleteDocument(given, backend) ==
  /\ proxyExchange' =
       [route |-> "delete", given |-> given, backend |-> backend,
        status |-> IF ~given THEN 400 ELSE StatusOf(remap(proxyTry("delete", backend)))]
  /\ lastOp' = Op("deleteDocument")
  /\ UNCHANGED <<viewerVars, issuerVars, directoryVars, annotationVars, extraVars>>

\* -------------------------------------------------------- useAnnotations

\* what the annotation manager leaves alone
annotationFrame == <<viewerVars, issuerVars, directoryVars, proxyVars, extraVars>>

\* an annotation as mapAnnotation keeps it (type and customData left out)
Annotation(id, pageIndex) == [id |-> id, pageIndex |-> pageIndex]

RECURSIVE Ascending(_)
Ascending(ids) ==
  IF ids = {} THEN <<>>
  ELSE LET m == CHOOSE x \in ids : \A y \in ids : x <= y
       IN <<m>> \o Ascending(ids \ {m})

\* instance.getAnnotations(pageIndex).toArray() on document d
PageAnnotations(d, pageIndex) ==
  LET ids == {a.id : a \in {b \in engAnnotations[d] : b.pageIndex = pageIndex}}
      sorted == Ascending(ids)
  IN [k \in DOMAIN sorted |-> Annotation(sorted[k], pageIndex)]

\* refreshAnnotations() up to its first await, for operation o: without an
\* instance it returns; otherwise the cells are set, totalPageCount is read
\* and the annotations of page 0 are asked for
refreshStart(o, op) ==
  IF instance = None
  THEN /\ annOps' = [annOps EXCEPT ![o].pc = "done"]
       /\ lastOp' = [Op(op) EXCEPT !.arg = o]
       /\ UNCHANGED <<annotations, annLoading, annError>>
  ELSE /\ annLoading' = TRUE
       /\ annError' = Null
       /\ annOps' = [annOps EXCEPT ![o].pc = "reading", ![o].from = instance,
                                   ![o].i = 0, ![o].acc = <<>>,
                                   ![o].n = PageCount(calls[instance].documentId)]
       /\ lastOp' = [Op("refreshAnnotations") EXCEPT !.arg = o]
       /\ UNCHANGED annotations

\* getAllAnnotations() after the answer for page i of operation o: the next
\* page is asked for; without an instance every further page gives [];
\* after the last page the cache is written and the operation returns
refreshStep(o, list) ==
  LET acc == annOps[o].acc \o list
      op == IF annOps[o].kind = "create" THEN "createTextAnnotationResolved"
            ELSE IF annOps[o].kind = "delete" THEN "deleteAnnotationResolved"
            ELSE "refreshAnnotationsResolved"
  IN IF annOps[o].i + 1 < annOps[o].n /\ instance # None
     THEN /\ annOps' = [annOps EXCEPT ![o].i = @ + 1, ![o].from = instance, ![o].acc = acc]
          /\ lastOp' = [Op("getAnnotations") EXCEPT !.arg = o]
          /\ UNCHANGED <<annotations, annLoading>>
     ELSE /\ annotations' = acc
          /\ annLoading' = FALSE
          /\ annOps' = [annOps EXCEPT ![o].pc = "done", ![o].acc = <<>>]
          /\ lastOp' = [Op(op) EXCEPT !.arg = o]

NewOp(kind, id, pageIndex) ==
  [kind |-> kind, on |-> instance, pc |-> "writing", id |-> id, pageIndex |-> pageIndex,
   from |-> None, i |-> 0, n |-> 0, acc |-> <<>>]

\* refreshAnnotations() called on its own (the Refresh button, or the
\* watcher of the instance in the annotation tools): without an instance it
\* returns; otherwise the cells are set and the annotations of page 0 are
\* asked for
RefreshAnnotations ==
  /\ Len(annOps) < MaxAnnotationOps
  /\ IF instance = None
     THEN /\ lastOp' = Op("refreshAnnotations")
          /\ UNCHANGED <<annLoading, annError, annOps>>
     ELSE /\ annLoading' = TRUE
          /\ annError' = Null
          /\ annOps' = Append(annOps,
               [NewOp("refresh", 0, 0) EXCEPT !.pc = "reading", !.from = instance,
                  !.n = PageCount(calls[instance].documentId)])
          /\ lastOp' = [Op("refreshAnnotations") EXCEPT !.arg = Len(annOps) + 1]
  /\ UNCHANGED <<annotations, engAnnotations>>
  /\ UNCHANGED annotationFrame

\* createTextAnnotation(options): throws without an instance, otherwise
\* instance.value.create is called
CreateTextAnnotation(pageIndex) ==
  /\ Len(annOps) < MaxAnnotationOps
  /\ IF instance = None
     THEN /\ lastOp' = [Op("createTextAnnotation") EXCEPT !.threw = TRUE]
          /\ UNCHANGED annOps
     ELSE /\ annOps' = Append(annOps, NewOp("create", Len(annOps) + 1, pageIndex))
          /\ lastOp' = [Op("createTextAnnotation") EXCEPT !.arg = Len(annOps) + 1]
  /\ UNCHANGED <<annotations, annLoading, annError, engAnnotations>>
  /\ UNCHANGED annotationFrame

\* the engine has created the annotation of operation o and answers with
\* it: refreshAnnotations() is called
CreateResolve(o) ==
  /\ o \in DOMAIN annOps
  /\ annOps[o].kind = "create"
  /\ annOps[o].pc = "writing"
  /\ engAnnotations' =
       [engAnnotations EXCEPT ![calls[annOps[o].on].documentId] =
          @ \cup {Annotation(annOps[o].id, annOps[o].pageIndex)}]
  /\ refreshStart(o, "createTextAnnotationResolved")
  /\ UNCHANGED annotationFrame

\* deleteAnnotation(annotationId): throws without an instance, otherwise
\* instance.value.delete is called
DeleteAnnotation(annotationId) ==
  /\ Len(annOps) < MaxAnnotationOps
  /\ IF instance = None
     THEN /\ lastOp' = [Op("deleteAnnotation") EXCEPT !.threw = TRUE]
          /\ UNCHANGED annOps
     ELSE /\ annOps' = Append(annOps, NewOp("delete", annotationId, 0))
          /\ lastOp' = [Op("deleteAnnotation") EXCEPT !.arg = Len(annOps) + 1]
  /\ UNCHANGED <<annotations, annLoading, annError, engAnnotations>>
  /\ UNCHANGED annotationFrame

\* the engine has deleted the annotation of operation o:
\* refreshAnnotations() is called
DeleteResolve(o) ==
  /\ o \in DOMAIN annOps
  /\ annOps[o].kind = "delete"
  /\ annOps[o].pc = "writing"
  /\ \E a \in engAnnotations[calls[annOps[o].on].documentId] : a.id = annOps[o].id
  /\ engAnnotations' =
       [engAnnotations EXCEPT ![calls[annOps[o].on].documentId] =
          {a \in @ : a.id # annOps[o].id}]
  /\ refreshStart(o, "deleteAnnotationResolved")
  /\ UNCHANGED annotationFrame

WriteReject_DropsCache(o) ==
  /\ o \in DOMAIN annOps
  /\ annOps[o].pc = "writing"
  /\ annOps' = [annOps EXCEPT ![o].pc = "failed"]
  /\ annError' = "write-failed"
  /\ annotations' = <<>>
  /\ lastOp' = [Op("writeReject") EXCEPT !.arg = o, !.threw = TRUE]
  /\ UNCHANGED <<annLoading, engAnnotations>>
  /\ UNCHANGED annotationFrame

\* the engine rejects the create or the delete of operation o: the error
\* is set and thrown
WriteReject(o) ==
  /\ o \in DOMAIN annOps
  /\ annOps[o].pc = "writing"
  /\ annOps' = [annOps EXCEPT ![o].pc = "failed"]
  /\ annError' = "write-failed"
  /\ lastOp' = [Op("writeReject") EXCEPT !.arg = o, !.threw = TRUE]
  /\ UNCHANGED <<annotations, annLoading, engAnnotations>>
  /\ UNCHANGED annotationFrame

\* the engine answers getAnnotations(i) of operation o
PageResolve(o) ==
  /\ o \in DOMAIN annOps
  /\ annOps[o].pc = "reading"
  /\ refreshStep(o, PageAnnotations(calls[annOps[o].from].documentId, annOps[o].i))
  /\ UNCHANGED <<annError, engAnnotations>>
  /\ UNCHANGED annotationFrame

\* the engine rejects getAnnotations(i) of operation o: the catch block of
\* getAnnotations returns []
PageReject(o) ==
  /\ o \in DOMAIN annOps
  /\ annOps[o].pc = "reading"
  /\ refreshStep(o, <<>>)
  /\ UNCHANGED <<annError, engAnnotations>>
  /\ UNCHANGED annotationFrame

\* ------------------------------------------------------ sanitizeEventData

\* the values of an event payload: null, undefined, a primitive, a
\* function, an array of values, a plain object (the sequence of its
\* entries <<key, value>>) and an object with a toJS method (known by the
\* value toJS() returns)
JNull == <<"null">>
JUndefined == <<"undefined">>
JPrimitive(x) == <<"primitive", x>>
JFunction == <<"function">>
JArray(elements) == <<"array", elements>>
JObject(entries) == <<"object", entries>>
JImmutable(plain) == <<"immutable", plain>>

\* typeof v === 'object' && v !== null
IsObject(v) == v[1] \in {"array", "object", "immutable"}

\* key.startsWith('_'); the keys used here are "k" and "_p"
startsWithUnderscore(key) == key = "_p"

\* the value the loop over Object.entries stores for an entry it keeps
sanitizedEntry(value) ==
  IF IsObject(value)
  THEN IF value[1] = "immutable" THEN value[2] ELSE JPrimitive("[Object]")
  ELSE value

\* the loop over Object.entries(data)
sanitizedEntries(entries) ==
  LET kept == SelectSeq(entries,
                LAMBDA e : ~(e[2][1] = "function" \/ startsWithUnderscore(e[1])))
  IN [i \in DOMAIN kept |-> <<kept[i][1], sanitizedEntry(kept[i][2])>>]

\* sanitizeEventData(data)
RECURSIVE sanitizeEventData(_)
sanitizeEventData(data) ==
  IF data[1] \in {"null", "undefined"} THEN JNull
  ELSE IF ~IsObject(data) THEN data
  ELSE IF data[1] = "immutable" THEN data[2]
  ELSE IF data[1] = "array"
  THEN JArray([i \in DOMAIN data[2] |-> sanitizeEventData(data[2][i])])
  ELSE JObject(sanitizedEntries(data[2]))

\* a handler made by createEventHandler stores sanitizeEventData(data)
SanitizeEventData(data) ==
  /\ sanitizeExchange' = [data |-> data, stored |-> sanitizeEventData(data)]
  /\ lastOp' = Op("sanitizeEventData")
  /\ UNCHANGED <<viewerVars, issuerVars, directoryVars, proxyVars, annotationVars,
                 visibilityVars>>

\* ------------------------------------------- layer visibility (PDF layers)

\* what the layer visibility manager leaves alone
visibilityFrame ==
  <<viewerVars, issuerVars, directoryVars, proxyVars, annotationVars, sanitizeExchange>>

\* a layer of the PDF with its flag (name and the other fields of OCGLayer
\* are left out)
LayerWithVisibility(ocgId, visible) == [ocgId |-> ocgId, visible |-> visible]

\* the calls that have reached the engine and have not settled
VisInFlight == {o \in DOMAIN visOps : visOps[o].pc \notin {"done", "failed"}}

\* the record of a call: its kind, its arguments, where it waits, the
\* instance it has asked and the visible layers it applies; during is not
\* a value of the program: it records the calls in flight at the call
VisOp(kind, ocgId, visible, pc, ids) ==
  [kind |-> kind, ocgId |-> ocgId, visible |-> visible, pc |-> pc, from |-> instance,
   ids |-> ids, during |-> VisInFlight]

\* the catch block of refreshLayers
refreshLayersCatch(o) ==
  /\ pdfError' = "layers-failed"
  /\ pdfLayers' = <<>>
  /\ hasLayers' = FALSE
  /\ pdfLoading' = FALSE
  /\ visOps' = [visOps EXCEPT ![o].pc = "failed"]

\* the catch block of the visibility operations: the error is set and
\* thrown
visibilityCatch(o) ==
  /\ pdfError' = "visibility-failed"
  /\ visOps' = [visOps EXCEPT ![o].pc = "failed"]
  /\ UNCHANGED <<pdfLayers, pdfLoading, hasLayers>>

\* refreshLayers(): without an instance the list is emptied; otherwise the
\* cells are set and instance.value.getLayers() is called
RefreshLayers ==
  /\ Len(visOps) < MaxVisibilityOps
  /\ IF instance = None
     THEN /\ pdfLayers' = <<>>
          /\ hasLayers' = FALSE
          /\ lastOp' = [Op("refreshLayers") EXCEPT !.guarded = TRUE]
          /\ UNCHANGED <<pdfLoading, pdfError, visOps>>
     ELSE /\ pdfLoading' = TRUE
          /\ pdfError' = Null
          /\ visOps' = Append(visOps, VisOp("refresh", 0, FALSE, "getLayers", {}))
          /\ lastOp' = [Op("refreshLayers") EXCEPT !.arg = Len(visOps) + 1]
          /\ UNCHANGED <<pdfLayers, hasLayers>>
  /\ UNCHANGED engVisible
  /\ UNCHANGED visibilityFrame

\* the engine answers getLayers() of refresh o:
\* instance.value.getLayersVisibilityState() is called, which throws
\* without an instance
GetLayersResolve(o) ==
  /\ o \in DOMAIN visOps
  /\ visOps[o].pc = "getLayers"
  /\ IF instance = None
     THEN refreshLayersCatch(o)
     ELSE /\ visOps' = [visOps EXCEPT ![o].pc = "state", ![o].from = instance]
          /\ UNCHANGED <<pdfLayers, pdfLoading, pdfError, hasLayers>>
  /\ lastOp' = [Op("getLayersResolve") EXCEPT !.arg = o]
  /\ UNCHANGED engVisible
  /\ UNCHANGED visibilityFrame

\* the engine answers getLayersVisibilityState() of refresh o: the list is
\* written with the flags of the answer
RefreshLayersResolve(o) ==
  /\ o \in DOMAIN visOps
  /\ visOps[o].pc = "state"
  /\ pdfLayers' =
       [i \in DOMAIN OcgLayers |->
          LayerWithVisibility(OcgLayers[i], OcgLayers[i] \in engVisible[visOps[o].from])]
  /\ hasLayers' = (Len(OcgLayers) > 0)
  /\ pdfLoading' = FALSE
  /\ visOps' = [visOps EXCEPT ![o].pc = "done"]
  /\ lastOp' = [Op("refreshLayersResolve") EXCEPT !.arg = o]
  /\ UNCHANGED <<pdfError, engVisible>>
  /\ UNCHANGED visibilityFrame

\* setLayerVisibility(ocgId, visible) up to its first await, called as
\* operation op: without an instance it returns, otherwise
\* getLayersVisibilityState() is called
setLayerVisibility(op, ocgId, visible) ==
  IF instance = None
  THEN /\ lastOp' = [Op(op) EXCEPT !.guarded = TRUE]
       /\ UNCHANGED visOps
  ELSE /\ visOps' = Append(visOps, VisOp("set", ocgId, visible, "reading", {}))
       /\ lastOp' = [Op(op) EXCEPT !.arg = Len(visOps) + 1]

SetLayerVisibility(ocgId, visible) ==
  /\ Len(visOps) < MaxVisibilityOps
  /\ setLayerVisibility("setLayerVisibility", ocgId, visible)
  /\ UNCHANGED <<pdfLayers, pdfLoading, pdfError, hasLayers, engVisible>>
  /\ UNCHANGED visibilityFrame

\* toggleLayerVisibility(ocgId): for a layer of the list,
\* setLayerVisibility(ocgId, !layer.visible)
ToggleLayerVisibility(ocgId) ==
  /\ Len(visOps) < MaxVisibilityOps
  /\ IF \E i \in DOMAIN pdfLayers : pdfLayers[i].ocgId = ocgId
     THEN LET layer == pdfLayers[CHOOSE i \in DOMAIN pdfLayers : pdfLayers[i].ocgId = ocgId]
          IN setLayerVisibility("toggleLayerVisibility", ocgId, ~layer.visible)
     ELSE /\ lastOp' = [Op("toggleLayerVisibility") EXCEPT !.guarded = TRUE]
          /\ UNCHANGED visOps
  /\ UNCHANGED <<pdfLayers, pdfLoading, pdfError, hasLayers, engVisible>>
  /\ UNCHANGED visibilityFrame

\* the engine answers getLayersVisibilityState() of setLayerVisibility o:
\* the layer is added to or taken from the visible layers of the answer
\* and setLayersVisibilityState is called, which throws without an instance
VisibilityStateResolve(o) ==
  /\ o \in DOMAIN visOps
  /\ visOps[o].pc = "reading"
  /\ IF instance = None
     THEN /\ visibilityCatch(o)
          /\ lastOp' = [Op("visibilityStateResolve") EXCEPT !.arg = o, !.threw = TRUE]
     ELSE LET visibleIds == engVisible[visOps[o].from]
          IN /\ visOps' =
                  [visOps EXCEPT
                     ![o].pc = "applying", ![o].from = instance,
                     ![o].ids = IF visOps[o].visible THEN visibleIds \cup {visOps[o].ocgId}
                                ELSE visibleIds \ {visOps[o].ocgId}]
             /\ lastOp' = [Op("visibilityStateResolve") EXCEPT !.arg = o]
             /\ UNCHANGED <<pdfLayers, pdfLoading, pdfError, hasLayers>>
  /\ UNCHANGED engVisible
  /\ UNCHANGED visibilityFrame

\* showAllLayers / hideAllLayers / showOnlyLayer up to the await: at the
\* guard the call returns, otherwise setLayersVisibilityState is called
\* with the layers ids
applyVisibility(op, guarded, kind, ocgId, ids) ==
  /\ Len(visOps) < MaxVisibilityOps
  /\ IF guarded
     THEN /\ lastOp' = [Op(op) EXCEPT !.guarded = TRUE]
          /\ UNCHANGED visOps
     ELSE /\ visOps' = Append(visOps, VisOp(kind, ocgId, FALSE, "applying", ids))
          /\ lastOp' = [Op(op) EXCEPT !.arg = Len(visOps) + 1]
  /\ UNCHANGED <<pdfLayers, pdfLoading, pdfError, hasLayers, engVisible>>

ShowAllLayers ==
  /\ applyVisibility("showAllLayers", instance = None \/ Len(pdfLayers) = 0, "showAll", 0,
                     {pdfLayers[i].ocgId : i \in DOMAIN pdfLayers})
  /\ UNCHANGED visibilityFrame

HideAllLayers ==
  /\ applyVisibility("hideAllLayers", instance = None, "hideAll", 0, {})
  /\ UNCHANGED visibilityFrame

ShowOnlyLayer(ocgId) ==
  /\ applyVisibility("showOnlyLayer", instance = None, "showOnly", ocgId, {ocgId})
  /\ UNCHANGED visibilityFrame

\* the flag the list gets for a layer when operation o has been applied
appliedFlag(o, layer) ==
  CASE visOps[o].kind = "set" ->
         IF layer.ocgId = visOps[o].ocgId THEN visOps[o].visible ELSE layer.visible
    [] visOps[o].kind = "showAll" -> TRUE
    [] visOps[o].kind = "hideAll" -> FALSE
    [] OTHER -> layer.ocgId = visOps[o].ocgId

\* the engine has applied setLayersVisibilityState of operation o: the
\* flags of the list are updated
ApplyResolve(o) ==
  /\ o \in DOMAIN visOps
  /\ visOps[o].pc = "applying"
  /\ engVisible' = [engVisible EXCEPT ![visOps[o].from] = visOps[o].ids]
  /\ pdfLayers' =
       [i \in DOMAIN pdfLayers |->
          LayerWithVisibility(pdfLayers[i].ocgId, appliedFlag(o, pdfLayers[i]))]
  /\ visOps' = [visOps EXCEPT ![o].pc = "done"]
  /\ lastOp' = [Op("applyResolve") EXCEPT !.arg = o]
  /\ UNCHANGED <<pdfLoading, pdfError, hasLayers>>
  /\ UNCHANGED visibilityFrame

\* the engine rejects the call operation o waits for: the catch block of
\* the operation runs
VisibilityReject(o) ==
  /\ o \in DOMAIN visOps
  /\ visOps[o].pc \notin {"done", "failed"}
  /\ IF visOps[o].kind = "refresh"
     THEN /\ refreshLayersCatch(o)
          /\ lastOp' = [Op("visibilityReject") EXCEPT !.arg = o]
     ELSE /\ visibilityCatch(o)
          /\ lastOp' = [Op("visibilityReject") EXCEPT !.arg = o, !.threw = TRUE]
  /\ UNCHANGED engVisible
  /\ UNCHANGED visibilityFrame

\* ------------------------------------------------------------------ Init

Init ==
  /\ instance = None
  /\ isLoading = FALSE
  /\ error = NoError
  /\ containerRef = NoSurface
  /\ currentDocumentId = Null
  /\ currentLayer = Null
  /\ calls = <<>>
  /\ engLoaded = {}
  /\ engUnloading = {}
  /\ unloadCalls = [s \in Surfaces |-> 0]
  /\ registry = {}
  /\ events = <<>>
  /\ isListening = FALSE
  /\ listeners = EmptyMap
  /\ eventCounter = 0
  /\ currentPage = 0
  /\ totalPages = 0
  /\ currentZoom = Num(100)
  /\ eventHandlers = EmptyMap
  /\ searches = <<>>
  /\ jwtExchange = NoExchange
  /\ propsDocumentId = Null
  /\ layers = <<>>
  /\ currentLayerName = Null
  /\ layersLoading = FALSE
  /\ layersError = Null
  /\ layerFetches = <<>>
  /\ layerTokens = <<>>
  /\ proxyExchange = NoProxyExchange
  /\ annotations = <<>>
  /\ annLoading = FALSE
  /\ annError = Null
  /\ annOps = <<>>
  /\ engAnnotations = [d \in Docs |-> {}]
  /\ sanitizeExchange = [data |-> JUndefined, stored |-> JNull]
  /\ pdfLayers = <<>>
  /\ pdfLoading = FALSE
  /\ pdfError = Null
  /\ hasLayers = FALSE
  /\ visOps = <<>>
  /\ engVisible = [c \in CallIds |-> OcgIds]
  /\ lastOp = Op("init")

\* the session manager and the engine, with every argument of load
Next ==
  \/ \E s \in Surfaces, d \in Docs, l \in LayerArgs, throws \in BOOLEAN : Load(s, d, l, throws)
  \/ \E throws \in BOOLEAN : Unload(throws)
  \/ \E c \in CallIds : TokenResolve(c)
  \/ \E c \in CallIds : TokenReject(c)
  \/ \E c \in CallIds : EngineResolve(c)
  \/ \E c \in CallIds : EngineReject(c)
  \/ \E i \in CallIds : EngineUnloadDone(i)

Spec == Init /\ [][Next]_vars

\* the zoom values and page indices the engine reports in the bridge runs
ZoomPayloads == {Obj("FIT_TO_WIDTH")}
PagePayloads == 0 .. 1

\* the session manager on one surface and one document, with loads that
\* succeed, together with the event bridge, the mirrored cells and the
\* engine's events (the bridge reads neither surface nor document)
NextBridge ==
  \/ Load("s1", "d1", Undefined, FALSE)
  \/ Unload(FALSE)
  \/ \E c \in CallIds : TokenResolve(c)
  \/ \E c \in CallIds : EngineResolve(c)
  \/ StartListening
  \/ StopListening
  \/ \E i \in CallIds, p \in PagePayloads : EmitPageChange(i, p)
  \/ \E i \in CallIds, z \in ZoomPayloads : EmitZoomChange(i, z)

SpecBridge == Init /\ [][NextBridge]_vars

\* the activity log: sessions that load and stay bound, the bridge's three
\* operations and the page events of the engine
NextLog ==
  \/ Load("s1", "d1", Undefined, FALSE)
  \/ \E c \in CallIds : TokenResolve(c)
  \/ \E c \in CallIds : EngineResolve(c)
  \/ StartListening
  \/ StopListening
  \/ ClearEvents
  \/ \E i \in CallIds, p \in PagePayloads : EmitPageChange(i, p)

SpecLog == Init /\ [][NextLog]_vars

\* the arguments of goToPage run over -MaxIndex .. MaxIndex
MaxIndex == 3
PageArgs == (0 - MaxIndex) .. MaxIndex

\* the page indices the engine reports in the navigation runs
NavPagePayloads == 0 .. 2

\* navigation over sessions that load and reload either document
NextNav ==
  \/ \E d \in Docs : Load("s1", d, Undefined, FALSE)
  \/ \E c \in CallIds : TokenResolve(c)
  \/ \E c \in CallIds : EngineResolve(c)
  \/ \E i \in CallIds, p \in NavPagePayloads : EmitPageChange(i, p)
  \/ \E p \in PageArgs : GoToPage(p)
  \/ GoToNextPage
  \/ GoToPreviousPage
  \/ GoToFirstPage
  \/ GoToLastPage

SpecNav == Init /\ [][NextNav]_vars

\* the zoom values the engine reports in the zoom runs (the engine's zoom
\* is any number or a mode) and the arguments of setZoom
FacadeZoomPayloads ==
  {Num(10), Num(100), Num(1000), Num(1200), Obj("FIT_TO_VIEWPORT")}
ZoomArgs == {Num(150), Num(1200), Str("AUTO")}

\* navigation and zoom together with the events of the engine, over
\* sessions that load, reload and unload one document
NextMirror ==
  \/ Load("s1", "d1", Undefined, FALSE)
  \/ Unload(FALSE)
  \/ \E c \in CallIds : TokenResolve(c)
  \/ \E c \in CallIds : EngineResolve(c)
  \/ \E i \in CallIds : EmitPageChange(i, 1)
  \/ \E i \in CallIds : EmitZoomChange(i, Num(150))
  \/ GoToPage(1)
  \/ GoToNextPage
  \/ SetZoom(Num(200))
  \/ ZoomIn
  \/ ZoomOut

SpecMirror == Init /\ [][NextMirror]_vars

\* zoom over sessions that load and unload
NextZoom ==
  \/ Load("s1", "d1", Undefined, FALSE)
  \/ Unload(FALSE)
  \/ \E c \in CallIds : TokenResolve(c)
  \/ \E c \in CallIds : EngineResolve(c)
  \/ \E i \in CallIds, z \in FacadeZoomPayloads : EmitZoomChange(i, z)
  \/ \E z \in ZoomArgs : SetZoom(z)
  \/ ZoomIn
  \/ ZoomOut
  \/ FitToWidth
  \/ FitToPage

SpecZoom == Init /\ [][NextZoom]_vars

\* the queries given to search and the indices given to goToResult
Queries == {<<>>, <<" ", " ">>, <<" ", "a", " ">>}
ResultArgs == (0 - 1) .. 2
SearchIds == 1 .. MaxSearches

\* search over sessions that load either document and unload
NextSearch ==
  \/ \E d \in Docs : Load("s1", d, Undefined, FALSE)
  \/ Unload(FALSE)
  \/ \E c \in CallIds : TokenResolve(c)
  \/ \E c \in CallIds : EngineResolve(c)
  \/ \E q \in Queries : Search(q)
  \/ \E k \in SearchIds, d \in Docs : \E r \in SearchOutcomes(d) : SearchResolve(k, r)
  \/ \E k \in SearchIds : SearchReject(k)
  \/ \E k \in SearchIds : JumpResolve(k)
  \/ \E k \in SearchIds : JumpReject(k)
  \/ \E k \in SearchIds, i \in ResultArgs : GoToResult(k, i)

SpecSearch == Init /\ [][NextSearch]_vars

\* the answers of the engine after which search makes no jump
OutcomesWithoutJump(d) ==
  {r \in SearchOutcomes(d) : r = <<>> \/ Len(r[1].rectsOnPage) = 0}

\* search over sessions that load and reload one document, with answers
\* whose first result has no rects
NextQuery ==
  \/ Load("s1", "d1", Undefined, FALSE)
  \/ \E c \in CallIds : TokenResolve(c)
  \/ \E c \in CallIds : EngineResolve(c)
  \/ \E q \in Queries : Search(q)
  \/ \E k \in SearchIds : \E r \in OutcomesWithoutJump("d1") : SearchResolve(k, r)
  \/ \E k \in SearchIds : SearchReject(k)
  \/ \E k \in SearchIds, i \in 0 .. 1 : GoToResult(k, i)

SpecQuery == Init /\ [][NextQuery]_vars

\* search and the engine's answers, with the jump to the first result,
\* over sessions that load and reload one document
NextAnswer ==
  \/ Load("s1", "d1", Undefined, FALSE)
  \/ \E c \in CallIds : TokenResolve(c)
  \/ \E c \in CallIds : EngineResolve(c)
  \/ \E q \in Queries : Search(q)
  \/ \E k \in SearchIds : \E r \in SearchOutcomes("d1") : SearchResolve(k, r)
  \/ \E k \in SearchIds : SearchReject(k)
  \/ \E k \in SearchIds : JumpResolve(k)
  \/ \E k \in SearchIds : JumpReject(k)

SpecAnswer == Init /\ [][NextAnswer]_vars

\* the token endpoint over request bodies with a documentId that is
\* missing, null, empty, not a string or a document, a layer that is
\* missing, null, the default layer, a named layer or not a string, with
\* and without permissions, with and without the signing key
DocumentIdFields == {Undefined, Null, "", NotAString, "d1"}
LayerFields == {Undefined, Null, "", "L1", NotAString}
PermissionFields == {NoPermissions, <<(<<"read-document">>)>>}
RequestBodies ==
  [documentId : DocumentIdFields, layer : LayerFields, permissions : PermissionFields]

NextIssuer ==
  \/ \E body \in RequestBodies, hasKey \in BOOLEAN : PostJwt(body, hasKey)
  \/ \E d \in Docs, l \in LayerArgs, hasKey \in BOOLEAN : PostJwtFromFetchJWT(d, l, hasKey)
  \/ \E d \in Docs, l \in {"", "L1"}, hasKey \in BOOLEAN : PostJwtFromGetLayerJWT(d, l, hasKey)

SpecIssuer == Init /\ [][NextIssuer]_vars

\* the layer directory over two documents: the layer lists the backend
\* answers with, among them the empty list and a list with "" not first
UpstreamLists == {<<>>, <<"L1", "">>, <<"", "L2">>}

NextDirectory ==
  \/ \E d \in Docs \cup {Null} : SetDocument(d)
  \/ FetchLayers
  \/ \E f \in 1 .. MaxLayerFetches : \E u \in UpstreamLists : FetchLayersResolve(f, u)
  \/ \E f \in 1 .. MaxLayerFetches : FetchLayersReject(f)
  \/ SetCurrentLayer("L1")
  \/ CreateLayer("L1")
  \/ GetLayerJWT("")
  \/ \E t \in 1 .. MaxLayerTokens : \E hasKey \in BOOLEAN : LayerTokenAnswer(t, hasKey)
  \/ Reset

SpecDirectory == Init /\ [][NextDirectory]_vars

\* the layer directory of one document, with the names given to
\* createLayer and setCurrentLayer: empty, whitespace, a name the backend
\* lists and a new name
LayerNames == {"", " ", "L1", "L2"}

NextCreate ==
  \/ SetDocument("d1")
  \/ \E f \in 1 .. MaxLayerFetches : FetchLayersResolve(f, <<"L1">>)
  \/ \E n \in {"", "L1"} : SetCurrentLayer(n)
  \/ \E n \in LayerNames : CreateLayer(n)

SpecCreate == Init /\ [][NextCreate]_vars

\* the document routes over the answers of the backend: reachable or not,
\* a status that is ok or not, and texts with and without the word fetch
BackendStatuses == {200, 404, 500, 503}
BackendTexts == {<<>>, <<"Not", "Found">>, <<"cannot", "fetch", "document">>}
Backends ==
  {Backend(r, st, t, b) : r \in BOOLEAN, st \in BackendStatuses,
                          t \in BackendTexts, b \in BackendTexts}

NextProxy ==
  \/ \E given \in BOOLEAN, backend \in Backends : PostDocuments(given, backend)
  \/ \E given \in BOOLEAN, backend \in Backends : GetLayers(given, backend)
  \/ \E given \in BOOLEAN, backend \in Backends : DeleteDocument(given, backend)

SpecProxy == Init /\ [][NextProxy]_vars

\* the annotation manager over sessions that load and reload one document
AnnotationIds == 1 .. MaxAnnotationOps
AnnotationOpIds == 1 .. MaxAnnotationOps

NextAnnotations ==
  \/ Load("s1", "d1", Undefined, FALSE)
  \/ \E c \in CallIds : TokenResolve(c)
  \/ \E c \in CallIds : EngineResolve(c)
  \/ \E p \in 0 .. PageCount("d1") - 1 : CreateTextAnnotation(p)
  \/ \E o \in AnnotationOpIds : CreateResolve(o)
  \/ \E id \in AnnotationIds : DeleteAnnotation(id)
  \/ \E o \in AnnotationOpIds : DeleteResolve(o)
  \/ \E o \in AnnotationOpIds : WriteReject(o)
  \/ \E o \in AnnotationOpIds : PageResolve(o)
  \/ \E o \in AnnotationOpIds : PageReject(o)

SpecAnnotations == Init /\ [][NextAnnotations]_vars

\* creates and deletes that the engine accepts or rejects, on a session
\* that is loaded once
NextWrite ==
  \/ calls = <<>> /\ Load("s1", "d1", Undefined, FALSE)
  \/ \E c \in CallIds : TokenResolve(c)
  \/ \E c \in CallIds : EngineResolve(c)
  \/ CreateTextAnnotation(0)
  \/ \E o \in AnnotationOpIds : CreateResolve(o)
  \/ DeleteAnnotation(1)
  \/ \E o \in AnnotationOpIds : DeleteResolve(o)
  \/ \E o \in AnnotationOpIds : WriteReject(o)
  \/ \E o \in AnnotationOpIds : PageResolve(o)

SpecWrite == Init /\ [][NextWrite]_vars

\* the layer visibility manager on a session that is loaded once
VisibilityOpIds == 1 .. MaxVisibilityOps

NextVisibility ==
  \/ calls = <<>> /\ Load("s1", "d1", Undefined, FALSE)
  \/ \E c \in CallIds : TokenResolve(c)
  \/ \E c \in CallIds : EngineResolve(c)
  \/ RefreshLayers
  \/ \E o \in VisibilityOpIds : GetLayersResolve(o)
  \/ \E o \in VisibilityOpIds : RefreshLayersResolve(o)
  \/ \E id \in OcgIds, visible \in BOOLEAN : SetLayerVisibility(id, visible)
  \/ \E id \in OcgIds : ToggleLayerVisibility(id)
  \/ \E o \in VisibilityOpIds : VisibilityStateResolve(o)
  \/ ShowAllLayers
  \/ HideAllLayers
  \/ \E id \in OcgIds : ShowOnlyLayer(id)
  \/ \E o \in VisibilityOpIds : ApplyResolve(o)
  \/ \E o \in VisibilityOpIds : VisibilityReject(o)

SpecVisibility == Init /\ [][NextVisibility]_vars

\* overlapping refreshes on one session whose page reads all succeed
NextRefresh ==
  \/ Load("s1", "d1", Undefined, FALSE)
  \/ \E c \in CallIds : TokenResolve(c)
  \/ \E c \in CallIds : EngineResolve(c)
  \/ RefreshAnnotations
  \/ \E p \in 0 .. PageCount("d1") - 1 : CreateTextAnnotation(p)
  \/ \E o \in AnnotationOpIds : CreateResolve(o)
  \/ \E id \in AnnotationIds : DeleteAnnotation(id)
  \/ \E o \in AnnotationOpIds : DeleteResolve(o)
  \/ \E o \in AnnotationOpIds : PageResolve(o)

SpecRefresh == Init /\ [][NextRefresh]_vars

\* sanitizeEventData over payloads: the values without entries, the
\* objects with up to MaxEntries entries of such values, the arrays of one
\* such value, and the objects whose toJS() returns one of these
FlatValues ==
  {JNull, JUndefined, JPrimitive("a"), JFunction, JArray(<<>>), JObject(<<>>),
   JImmutable(JPrimitive("a"))}
EntrySeqs ==
  UNION {[1 .. n -> {"k", "_p"} \X FlatValues] : n \in 0 .. MaxEntries}
PlainValues ==
  FlatValues \cup {JObject(es) : es \in EntrySeqs} \cup {JArray(<<v>>) : v \in FlatValues}
Payloads == PlainValues \cup {JImmutable(v) : v \in PlainValues}

NextSanitize ==
  \E data \in Payloads : SanitizeEventData(data)

SpecSanitize == Init /\ [][NextSanitize]_vars

\* the exports over sessions that load, fail to load and unload
NextExport ==
  \/ \E d \in Docs : Load("s1", d, Undefined, FALSE)
  \/ Unload(FALSE)
  \/ \E c \in CallIds : TokenResolve(c)
  \/ \E c \in CallIds : TokenReject(c)
  \/ \E c \in CallIds : EngineResolve(c)
  \/ \E c \in CallIds : EngineReject(c)
  \/ ExportPdf
  \/ ExportInstantJson
  \/ ExportXfdf

SpecExport == Init /\ [][NextExport]_vars

\* ------------------------------------------------------ session manager

\* the load state of the session, read off the cells
LoadState ==
  IF isLoading THEN "Loading"
  ELSE IF instance # None THEN "Ready"
  ELSE IF error # NoError THEN "Failed"
  ELSE "Idle"

SettleOps == {"engineResolve", "engineReject", "tokenReject"}

\* C1: two load calls on the same surface never overlap: no surface holds
\* two engine instances that are loaded at once, and a load has begun its
\* token request only when every earlier load on its surface has settled.
C1_LoadsDoNotOverlap ==
  /\ \A s \in Surfaces : Cardinality(LoadedOn(s)) <= 1
  /\ \A a, b \in DOMAIN calls :
       (a < b /\ calls[a].container = calls[b].container) => ~InFlight(a)

\* C2: when load A was superseded by load B on the same surface before A
\* had settled, then once both have settled with B's instantiation
\* successful, the bound instance is B's, not A's.
C2_StaleResponseNotBound ==
  \A a, b \in DOMAIN calls :
    ( /\ a \in calls[b].during
      /\ calls[a].container = calls[b].container
      /\ Settled(a)
      /\ calls[b].pc = "resolved"
      /\ lastOp.op \in SettleOps )
    => instance = b

\* C3: a load that found an instance bound has its token request or its
\* engine instantiation under way only when the engine's unload of that
\* instance has completed.
C3_UnloadCompletedBeforeLoad ==
  \A c \in DOMAIN calls :
    ( /\ InFlight(c)
      /\ calls[c].released # None
      /\ SurfaceOf(calls[c].released) = calls[c].container )
    => calls[c].released \notin engUnloading

\* the layer claim a token for layer argument l carries
LayerClaim(l) == IF l \in {Undefined, ""} THEN NoClaim ELSE l

\* every instantiation asked of the engine carries the token issued to the
\* same call for the call's document and layer
TokenScoped ==
  \A c \in DOMAIN calls :
    calls[c].config # NoConfig =>
      /\ calls[c].config.container = calls[c].container
      /\ calls[c].config.documentId = calls[c].documentId
      /\ calls[c].config.jwt.jti = c
      /\ calls[c].config.jwt.document_id = calls[c].documentId
      /\ calls[c].config.jwt.layer = LayerClaim(calls[c].layer)

\* C4: every instantiation uses the token requested inside the same load
\* for exactly its document and layer, and the bound instance is never
\* replaced by one of another document or layer without an unload between.
C4_FreshScopedTokenAndReload ==
  [][ /\ TokenScoped'
      /\ (instance # None /\ instance' # None /\ instance' # instance) =>
           /\ calls[instance].documentId = calls[instance'].documentId
           /\ LayerClaim(calls[instance].layer) = LayerClaim(calls[instance'].layer) ]_vars

\* C5: when the token request or the instantiation of a load fails, the
\* load rejects with that error, the error cell holds it, no instance is
\* bound, isLoading is false, and after a failed token request the engine
\* was not asked to instantiate.
C5_FailedLoad ==
  [][ \A c \in DOMAIN calls :
        (calls[c].pc # "rejected" /\ calls'[c].pc = "rejected") =>
          /\ calls'[c].result.call = c
          /\ calls'[c].result.kind = (IF calls[c].pc = "fetching" THEN "token" ELSE "engine")
          /\ error' = calls'[c].result
          /\ instance' = None
          /\ isLoading' = FALSE
          /\ (calls[c].pc = "fetching" => calls'[c].config = NoConfig) ]_vars

\* C6: unload() with no instance bound changes nothing and calls the engine
\* not at all; with an instance bound it makes one engine unload call, for
\* the bound surface, and clears instance and surface binding.
C6_UnloadIdempotent ==
  [][ lastOp'.op = "unload" =>
        IF instance = None
        THEN UNCHANGED <<sessionVars, engineVars>>
        ELSE /\ containerRef # NoSurface
             /\ unloadCalls' = [unloadCalls EXCEPT ![containerRef] = @ + 1]
             /\ instance' = None
             /\ containerRef' = NoSurface ]_vars

\* C7: the load state moves only Idle->Loading, Loading->Ready,
\* Loading->Failed, Ready->Idle and Failed->Idle by unload, and into
\* Loading by a load; unload() in the Failed state yields Idle with the
\* surface binding released.
C7_LoadStateTransitions ==
  [][ /\ LoadState' # LoadState =>
           \/ LoadState' = "Loading" /\ lastOp'.op = "load"
           \/ LoadState = "Loading" /\ LoadState' \in {"Ready", "Failed"}
           \/ LoadState \in {"Ready", "Failed"} /\ LoadState' = "Idle" /\ lastOp'.op = "unload"
      /\ (lastOp'.op = "unload" /\ LoadState = "Failed") =>
           (LoadState' = "Idle" /\ containerRef' = NoSurface) ]_vars

\* ---------------------------------------------------------- event bridge

\* C8: an event emitted by an instance that is no longer the bound one
\* changes no mirrored cell and adds no activity record; an event of the
\* bound instance sets the mirrored cell to its payload and, while the
\* bridge listens, is put in front of the log.
C8_OnlyBoundInstanceMirrored ==
  [][ lastOp'.op = "emit" =>
        IF lastOp'.inst # instance
        THEN UNCHANGED <<events, eventCounter, currentPage, totalPages, currentZoom>>
        ELSE /\ lastOp'.kind = "viewState.currentPageIndex.change" =>
                  currentPage' = lastOp'.page
             /\ lastOp'.kind = "viewState.zoom.change" =>
                  currentZoom' = extractZoomValue(lastOp'.zoom)
             /\ isListening =>
                  /\ eventCounter' = eventCounter + 1
                  /\ events'[1] = [id |-> eventCounter', type |-> lastOp'.kind] ]_vars

\* an instance that was bound before the present one has just emitted
C8_Witness ==
  /\ lastOp.op = "emit"
  /\ instance # None
  /\ lastOp.inst # instance
  /\ isListening
  /\ eventCounter > 0

\* C9: every listener registered with the engine is on the bound instance,
\* and the bridge's listeners are exactly those of its map, so that none
\* is left on an earlier instance when the next one gets its listeners.
C9_ListenersOnlyOnBoundInstance ==
  \A e \in registry :
    /\ e[1] = instance
    /\ e[3][1] = "log" =>
         (isListening /\ e[2] \in DOMAIN listeners /\ listeners[e[2]] = e[3])

\* a second instance is bound and listened to after startListening put the
\* listeners back
C9_Witness ==
  /\ instance # None
  /\ \E a \in DOMAIN calls : a # instance /\ calls[a].pc = "resolved"
  /\ lastOp.op = "startListening"
  /\ ~lastOp.guarded
  /\ \E e \in registry : e[1] = instance /\ e[3][1] = "log"

LogHandlersOn(reg, i, k) == {e \in reg : e[1] = i /\ e[2] = k /\ e[3][1] = "log"}

\* C10: startListening while listening and stopListening while not
\* listening change no listener; every instance has at most one bridge
\* handler per tracked kind and an emitted event adds at most one record.
C10_StartStopIdempotent ==
  [][ /\ (lastOp'.op = "startListening" /\ isListening) =>
           UNCHANGED <<registry, listeners, isListening>>
      /\ (lastOp'.op = "stopListening" /\ ~isListening) =>
           UNCHANGED <<registry, listeners, isListening>>
      /\ \A i \in CallIds, k \in TRACKED_EVENTS :
           Cardinality(LogHandlersOn(registry', i, k)) <= 1
      /\ lastOp'.op = "emit" => eventCounter' <= eventCounter + 1 ]_vars

\* startListening was called while the bridge was listening, after events
\* had been recorded
C10_Witness ==
  /\ lastOp.op = "startListening"
  /\ lastOp.guarded
  /\ instance # None
  /\ isListening
  /\ eventCounter > 0

\* ----------------------------------------------------------- activity log

C12_ClearEventsKeepsListening ==
  [][ /\ lastOp'.op = "clearEvents" =>
           (events' = <<>> /\ UNCHANGED <<isListening, listeners, registry, eventCounter>>)
      /\ (lastOp.op = "clearEvents" /\ lastOp'.op = "emit" /\ lastOp'.inst = instance) =>
           /\ isListening = (events' # <<>>)
           /\ \A k \in TRACKED_EVENTS :
                isListening = (LogHandlersOn(registry, instance, k) # {}) ]_vars

\* the first event after a clearEvents call on a listening bridge with a
\* non-empty log has been recorded
C12_Witness ==
  /\ lastOp.op = "emit"
  /\ lastOp.inst = instance
  /\ isListening
  /\ Len(events) = 1
  /\ eventCounter > 1

\* ---------------------------------------------------------- action facade

NavOps == {"goToPage", "goToNextPage", "goToPreviousPage", "goToFirstPage", "goToLastPage"}

\* C13: with an instance bound, goToPage(i) asks it for page index
\* max(0, min(i, totalPages - 1)); every navigation operation asks for an
\* index of 0 .. totalPages - 1, next on the last page and previous on
\* page 0 ask for the current page.  Without an instance no call is made.
C13_NavigationClamped ==
  lastOp.op \in NavOps =>
    IF instance = None THEN lastOp.engine = <<>>
    ELSE /\ totalPages >= 1
         /\ Len(lastOp.engine) = 1
         /\ lastOp.engine[1].call = "setViewState.currentPageIndex"
         /\ lastOp.engine[1].inst = instance
         /\ lastOp.engine[1].page \in 0 .. totalPages - 1
         /\ lastOp.op = "goToPage" =>
              lastOp.engine[1].page =
                (IF lastOp.arg < 0 THEN 0
                 ELSE IF lastOp.arg > totalPages - 1 THEN totalPages - 1
                 ELSE lastOp.arg)
         /\ lastOp.op = "goToNextPage" =>
              lastOp.engine[1].page =
                (IF currentPage = totalPages - 1 THEN currentPage ELSE currentPage + 1)
         /\ lastOp.op = "goToPreviousPage" =>
              lastOp.engine[1].page =
                (IF currentPage = 0 THEN currentPage ELSE currentPage - 1)
         /\ lastOp.op = "goToFirstPage" => lastOp.engine[1].page = 0
         /\ lastOp.op = "goToLastPage" => lastOp.engine[1].page = totalPages - 1

\* goToNextPage was called on the last page of the three-page document
C13_Witness ==
  /\ lastOp.op = "goToNextPage"
  /\ instance # None
  /\ totalPages = 3
  /\ currentPage = totalPages - 1
  /\ lastOp.engine # <<>>

\* C14: with a numeric mirrored zoom z, zoomIn asks for z + 0.25 and
\* zoomOut for z - 0.25, and the zoom they ask for lies in [0.1, 10].
C14_ZoomStepWithinBounds ==
  ( /\ lastOp.op \in {"zoomIn", "zoomOut"}
    /\ instance # None
    /\ currentZoom.t = "number" ) =>
      /\ Len(lastOp.engine) = 1
      /\ lastOp.engine[1].call = "setViewState.zoom"
      /\ lastOp.engine[1].zoom.t = "number"
      /\ lastOp.engine[1].zoom.n =
           (IF lastOp.op = "zoomIn" THEN currentZoom.n + ZOOM_STEP
            ELSE currentZoom.n - ZOOM_STEP)
      /\ lastOp.engine[1].zoom.n \in MIN_ZOOM .. MAX_ZOOM

\* C15: when the mirrored zoom is a named mode, zoomIn asks for exactly
\* 1.25 and zoomOut for exactly 0.75, whatever the mode.
C15_ZoomFromNamedMode ==
  ( /\ lastOp.op \in {"zoomIn", "zoomOut"}
    /\ instance # None
    /\ currentZoom.t # "number" ) =>
      /\ Len(lastOp.engine) = 1
      /\ lastOp.engine[1].call = "setViewState.zoom"
      /\ lastOp.engine[1].inst = instance
      /\ lastOp.engine[1].zoom = (IF lastOp.op = "zoomIn" THEN Num(125) ELSE Num(75))

\* zoomIn was called while the mirrored zoom was the mode the engine had
\* reported
C15_Witness ==
  /\ lastOp.op = "zoomIn"
  /\ instance # None
  /\ currentZoom = Str("FIT_TO_VIEWPORT")

ExportOps == {"exportPdf", "exportInstantJson", "exportXfdf"}

\* C19: each export throws and makes no engine call when no instance is
\* bound; with an instance bound it asks that instance and does not throw.
C19_ExportNeedsInstance ==
  lastOp.op \in ExportOps =>
    IF instance = None
    THEN lastOp.threw /\ lastOp.engine = <<>>
    ELSE /\ ~lastOp.threw
         /\ Len(lastOp.engine) = 1
         /\ lastOp.engine[1].inst = instance

\* exportXfdf was called while a load was in flight and nothing was bound
C19_Witness ==
  /\ lastOp.op = "exportXfdf"
  /\ instance = None
  /\ isLoading

\* ------------------------------------------------------------------ search

Blank(q) == \A i \in 1 .. Len(q) : q[i] = " "

\* C16: search with an empty or whitespace-only query makes no engine call
\* and returns no match with a navigator whose goToResult makes no engine
\* call either.
C16_BlankQuerySkipsEngine ==
  /\ (lastOp.op = "search" /\ Blank(lastOp.query)) =>
       /\ lastOp.engine = <<>>
       /\ searches[lastOp.arg].pc = "done"
       /\ searches[lastOp.arg].nav = "empty"
       /\ Len(searches[lastOp.arg].results) = 0
  /\ (lastOp.op = "goToResult" /\ searches[lastOp.arg].on = None) => lastOp.engine = <<>>

\* a whitespace-only query was searched while an instance was bound
C16_Witness ==
  /\ lastOp.op = "search"
  /\ instance # None
  /\ lastOp.query = <<" ", " ">>

\* C17: the navigator of a search that returned n results makes no engine
\* call for an index below 0 or from n on; for any other index i it sets
\* the focused result index to i and jumps to the rects of result i on its
\* page or, when the result has no rects, to the page of the result.
C17_GoToResultInRange ==
  (lastOp.op = "goToResult" /\ searches[lastOp.arg].nav = "results") =>
    LET results == searches[lastOp.arg].results
        i == lastOp.index
    IN IF i < 0 \/ i >= Len(results) THEN lastOp.engine = <<>>
       ELSE /\ Len(lastOp.engine) = 2
            /\ lastOp.engine[1].call = "setSearchState"
            /\ lastOp.engine[1].index = i
            /\ lastOp.engine[2].page = results[i + 1].pageIndex
            /\ IF Len(results[i + 1].rectsOnPage) > 0
               THEN /\ lastOp.engine[2].call = "jumpToRect"
                    /\ lastOp.engine[2].rects = results[i + 1].rectsOnPage
               ELSE lastOp.engine[2].call = "setViewState.currentPageIndex"

\* search k is out of date: a later search was given to the engine, or the
\* bound instance is no longer the one search k was started on
Stale(k) ==
  \/ searches[k].on # instance
  \/ \E j \in DOMAIN searches : j > k /\ searches[j].on # None

\* C18: once a later search has started or the bound instance has changed,
\* the navigator of an earlier search makes no engine call with its
\* results, and an earlier search that is answered late does not put its
\* results into the engine's search state.
C18_StaleResultsNotUsed ==
  (lastOp.op \in {"goToResult", "searchResolve"} /\ Stale(lastOp.arg)) =>
    lastOp.engine = <<>>

\* C20: when the engine rejects the search, search does not throw: it
\* returns no match and a navigator whose goToResult makes no engine call.
C20_RejectedSearchReturnsEmpty ==
  /\ lastOp.op = "searchReject" =>
       /\ ~lastOp.threw
       /\ searches[lastOp.arg].pc = "done"
       /\ searches[lastOp.arg].nav = "empty"
       /\ Len(searches[lastOp.arg].results) = 0
  /\ \A k \in DOMAIN searches : searches[k].nav \in {"pending", "empty", "results"}
  /\ ( /\ lastOp.op = "goToResult"
       /\ searches[lastOp.arg].on # None
       /\ searches[lastOp.arg].nav = "empty" ) => lastOp.engine = <<>>

\* the engine has rejected a search on the instance that is still bound
C20_Witness ==
  /\ lastOp.op = "searchReject"
  /\ instance # None
  /\ searches[lastOp.arg].on = instance

\* C30: search with a non-blank query and a bound instance asks the engine
\* to search exactly once; when the engine answers and an instance is
\* bound, the focused result index is set to 0 and exactly one jump is
\* made, to the rects of the first result on its page, if and only if the
\* first result exists and has rects; otherwise no jump and no page change
\* is made.  When no instance is bound at the answer, no call is made.
C30_SearchFocusesFirstResult ==
  /\ (lastOp.op = "search" /\ ~Blank(lastOp.query) /\ instance # None) =>
       /\ Len(lastOp.engine) = 1
       /\ lastOp.engine[1].call = "search"
       /\ lastOp.engine[1].inst = instance
  /\ lastOp.op = "searchResolve" =>
       LET results == searches[lastOp.arg].results
           jumps == results # <<>> /\ Len(results[1].rectsOnPage) > 0
       IN IF instance = None THEN lastOp.engine = <<>>
          ELSE /\ lastOp.engine[1].call = "setSearchState"
               /\ lastOp.engine[1].inst = instance
               /\ lastOp.engine[1].index = 0
               /\ Len(lastOp.engine) = (IF jumps THEN 2 ELSE 1)
               /\ jumps => /\ lastOp.engine[2].call = "jumpToRect"
                           /\ lastOp.engine[2].inst = instance
                           /\ lastOp.engine[2].page = results[1].pageIndex
                           /\ lastOp.engine[2].rects = results[1].rectsOnPage

\* the engine answered with a first result that has rects and the jump
\* was made
C30_Witness ==
  /\ lastOp.op = "searchResolve"
  /\ instance # None
  /\ Len(lastOp.engine) = 2
  /\ searches[lastOp.arg].pc = "jumping"

\* C30 as stated: whenever the engine answers a search that was started
\* with a non-blank query on a bound instance, the focused result index is
\* set to 0 and the jump is made exactly when the first result has rects.
C30_AsStated ==
  lastOp.op = "searchResolve" =>
    LET results == searches[lastOp.arg].results
        jumps == results # <<>> /\ Len(results[1].rectsOnPage) > 0
    IN /\ lastOp.engine # <<>>
       /\ lastOp.engine[1].call = "setSearchState"
       /\ lastOp.engine[1].index = 0
       /\ Len(lastOp.engine) = (IF jumps THEN 2 ELSE 1)

\* C21: a token issued for the layer "" (or with the layer omitted or
\* null) carries no layer claim in its signed payload, whichever client
\* path sent the request; a token issued for a non-empty layer name
\* carries exactly that name.
C21_DefaultLayerUnscoped ==
  jwtExchange.signed =>
    IF jwtExchange.asked \in {Undefined, Null, ""}
    THEN jwtExchange.payload.layer = NoClaim
    ELSE jwtExchange.asked = "L1" => jwtExchange.payload.layer = "L1"

\* C22: a token request whose documentId is missing, empty or not a
\* string is answered with status 400 and no token is signed, whatever the
\* key availability, the layer and the permissions are.
C22_BadDocumentIdRejected ==
  (jwtExchange.path # "none" /\
   jwtExchange.body.documentId \in {Undefined, Null, "", NotAString}) =>
    /\ jwtExchange.status = 400
    /\ ~jwtExchange.signed
    /\ jwtExchange.payload = NoPayload

\* a request without documentId, for a named layer, with permissions, was
\* rejected while the key is missing
C22_Witness ==
  /\ jwtExchange.path = "direct"
  /\ jwtExchange.body.documentId = Undefined
  /\ jwtExchange.body.layer = "L1"
  /\ jwtExchange.body.permissions # NoPermissions
  /\ ~jwtExchange.hasKey
  /\ jwtExchange.status = 400

\* the operations of the layer directory
DirectoryOps ==
  {"setDocument", "fetchLayers", "fetchLayersResolve", "fetchLayersReject",
   "setCurrentLayer", "createLayer", "getLayerJWT", "layerTokenAnswer", "reset"}

\* the names of a list other than the default name, in their order
NonDefault(names) == SelectSeq(names, LAMBDA n : n # "")

\* C23: for every layer list of the backend, also the empty list and a
\* list in which "" is not first, the list fetchLayers produces has the
\* default entry (name "", isDefault true) exactly once, at index 0,
\* followed by the other names of the backend with isDefault false.
C23_FetchedListDefaultFirst ==
  lastOp.op = "fetchLayersResolve" =>
    /\ Names(layers) = <<"">> \o NonDefault(lastOp.query)
    /\ \A i \in DOMAIN layers : layers[i].isDefault = (i = 1)

\* C24: in every state of the layer directory reached by fetchLayers
\* (succeeding or failing), createLayer, setCurrentLayer and reset, the
\* directory has exactly one default entry (name "") and it is the first.
C24_OneDefaultEntryFirst ==
  lastOp.op \in DirectoryOps =>
    /\ Len(layers) > 0
    /\ layers[1].name = ""
    /\ Cardinality({i \in DOMAIN layers : layers[i].name = ""}) = 1

\* C25: createLayer(name) with a name that is empty, only whitespace or
\* already in the directory returns no token, sets the error cell, leaves
\* the directory unchanged and sends no token request.
C25_CreateLayerRejects ==
  [][(lastOp'.op = "createLayer" /\
      (trim(Chars(lastOp'.kind)) = <<>> \/ Has(Names(layers), lastOp'.kind))) =>
       /\ lastOp'.guarded
       /\ lastOp'.arg = 0
       /\ layersError' # Null
       /\ layers' = layers
       /\ layerTokens' = layerTokens]_vars

\* createLayer returned at its guard for a name of whitespace
C25_Witness ==
  /\ lastOp.op = "createLayer"
  /\ lastOp.kind = " "
  /\ lastOp.guarded
  /\ layersError = "name-empty"

\* C26: setCurrentLayer(name) changes only the name of the current layer:
\* the directory, the error cell and the loading cell are unchanged, no
\* token request is sent and no session load or unload is started.
C26_SetCurrentLayerLocal ==
  [][lastOp'.op = "setCurrentLayer" =>
       /\ currentLayerName' = lastOp'.kind
       /\ UNCHANGED <<layers, layersError, layersLoading, layerTokens, layerFetches,
                      propsDocumentId, jwtExchange, viewerVars>>]_vars

\* setCurrentLayer chose a layer while the error cell was set and a
\* request for the layers was pending
C26_Witness ==
  /\ lastOp.op = "setCurrentLayer"
  /\ currentLayerName = "L1"
  /\ layersError # Null
  /\ \E f \in DOMAIN layerFetches : layerFetches[f].pc = "fetching"

\* C27: whenever the document shown changes from A to another document or
\* to none, the layer directory is reset: the current layer chosen for A is
\* not carried over, and from then on the directory never shows layers
\* fetched or created for A, also when a fetchLayers for A is pending at
\* the change.
C27_DocumentChangeResets ==
  /\ [][propsDocumentId' # propsDocumentId =>
          (layers' = <<>> /\ currentLayerName' = Null)]_vars
  /\ [](\A i \in DOMAIN layers : layers[i].doc = propsDocumentId)

\* C29: when the storage backend answers a forwarded upload, layer or
\* delete request with a status S that is not a success, the route answers
\* with the status S, whatever the status text and the body are; the route
\* answers 503 only when the backend cannot be reached.
C29_BackendStatusPassedOn ==
  (proxyExchange.route # "none" /\ proxyExchange.given /\ proxyExchange.backend.reachable) =>
    /\ ~ok(proxyExchange.backend.status) =>
         proxyExchange.status = proxyExchange.backend.status
    /\ proxyExchange.status = 503 => proxyExchange.backend.status = 503

\* the engine's annotations of document d over the pages 0 .. n-1, in
\* ascending page order
RECURSIVE UpToPage(_, _)
UpToPage(d, n) ==
  IF n = 0 THEN <<>> ELSE UpToPage(d, n - 1) \o PageAnnotations(d, n - 1)

HasId(list, id) == \E k \in DOMAIN list : list[k].id = id

\* C28: when createTextAnnotation has resolved, the annotation cache is
\* the engine's full annotation set over the pages 0 .. totalPages-1 in
\* ascending page order and holds the new annotation; when
\* deleteAnnotation has resolved, the cache is the full set and does not
\* hold the deleted annotation.
C28_CacheIsEngineSet ==
  lastOp.op \in {"createTextAnnotationResolved", "deleteAnnotationResolved"} =>
    LET o == annOps[lastOp.arg]
        d == calls[o.on].documentId
    IN /\ annotations = UpToPage(d, PageCount(d))
       /\ HasId(annotations, o.id) = (o.kind = "create")

\* C31: goToPage, the navigation operations built on it, setZoom, zoomIn
\* and zoomOut never write the mirrored cells (current page, zoom, total
\* pages); the cells change only when the bound instance emits a page or
\* zoom change event or when the bound instance changes.
C31_MirrorWrittenByEngineOnly ==
  [][/\ lastOp'.op \in NavOps \cup {"setZoom", "zoomIn", "zoomOut"} =>
          UNCHANGED <<currentPage, currentZoom, totalPages>>
     /\ <<currentPage, currentZoom, totalPages>>' # <<currentPage, currentZoom, totalPages>> =>
          \/ instance' # instance
          \/ /\ lastOp'.op = "emit"
             /\ lastOp'.inst = instance
             /\ totalPages' = totalPages]_vars

\* goToPage asked the bound instance for another page than the mirrored one
C31_Witness ==
  /\ lastOp.op = "goToPage"
  /\ instance # None
  /\ lastOp.engine # <<>>
  /\ lastOp.engine[1].page # currentPage

\* C32: for an event payload that has a toJS method, the data stored in
\* the activity record is the sanitized form of the value toJS() returns:
\* null and undefined become null, arrays are sanitized element by element,
\* entries with a function value or a name starting with _ are dropped and
\* nested objects are replaced by the placeholder.
C32_ConversionResultSanitized ==
  sanitizeExchange.data[1] = "immutable" =>
    sanitizeExchange.stored = sanitizeEventData(sanitizeExchange.data[2])

\* C33: whenever an instance is bound to the session, currentDocumentId and
\* currentLayer are the document and the layer that instance was
\* instantiated with, after any interleaving of load and unload calls.
C33_CellsDescribeBoundInstance ==
  instance # None =>
    /\ currentDocumentId = calls[instance].documentId
    /\ currentLayer = OrNull(calls[instance].layer)

\* C34: when unload() is called while a load is in flight, then once that
\* load has settled no instance is bound to the session and no engine
\* instance is loaded on its surface (stated for a load that settles in
\* the step after the unload() call).
C34_UnloadCancelsLoadInFlight ==
  [][\A c \in DOMAIN calls :
       (lastOp.op = "unload" /\ InFlight(c) /\ Settled(c)') =>
         (instance' = None /\ LoadedOn(SurfaceOf(c))' = {})]_vars

\* C35: when annotation refreshes overlap on the bound instance (two
\* mutations, or a mutation and a manual refresh) and all of them have
\* settled, the cache is the engine's current annotation set: a refresh
\* that started earlier and finished later has not overwritten it.
C35_SettledRefreshesGiveEngineSet ==
  (/\ instance # None
   /\ Len(annOps) >= 2
   /\ \A o \in DOMAIN annOps :
        /\ annOps[o].pc = "done"
        /\ annOps[o].from = instance
        /\ annOps[o].kind # "refresh" => annOps[o].on = instance) =>
    LET d == calls[instance].documentId
    IN annotations = UpToPage(d, PageCount(d))

\* C36: when the engine rejects a create or a delete, the error is stored
\* in the error cell and thrown to the caller, no refresh is started for
\* the operation and the annotation cache is left as it was.
C36_RejectedWriteKeepsCache ==
  [][lastOp'.op = "writeReject" =>
       /\ annError' = "write-failed"
       /\ lastOp'.threw
       /\ annOps'[lastOp'.arg].pc = "failed"
       /\ annOps'[lastOp'.arg].from = None
       /\ UNCHANGED <<annotations, annLoading, engAnnotations>>]_vars

\* a write is rejected while the cache holds an annotation
C36_Witness ==
  /\ lastOp.op = "writeReject"
  /\ annotations # <<>>
  /\ annError = "write-failed"

\* C37: a layer added by a createLayer that returned a token is still in
\* the directory after every fetchLayers for the same document that is
\* called later and settles, succeeding or failing, before the directory
\* is reset.
C37_CreatedLayerSurvivesFetch ==
  [][lastOp'.op \in {"fetchLayersResolve", "fetchLayersReject"} =>
       \A i \in DOMAIN layers :
         (/\ layers[i].token \in layerFetches[lastOp'.arg].had
          /\ layers[i].doc = layerFetches[lastOp'.arg].doc) =>
           Has(Names(layers'), layers[i].name)]_vars

\* C38: createLayer adds a layer to the directory only when it returns a
\* token: an entry it pushed has a token request, and that request has not
\* failed; when it returns no token (the name is rejected, there is no
\* document, the token request fails) the directory is as before the call.
C38_LayerAddedOnlyWithToken ==
  /\ \A i \in DOMAIN layers :
       layers[i].created =>
         /\ layers[i].token # 0
         /\ layerTokens[layers[i].token].pc # "rejected"
  /\ (lastOp.op = "createLayer" /\ lastOp.arg = 1) => Has(Names(layers), lastOp.kind)

\* C39: when the engine has answered a search with n results, search()
\* returns those n results (totalMatches = n) and a navigator over them,
\* also when the jump to the first result fails.
C39_ResultsReturnedDespiteJump ==
  [][\A k \in DOMAIN searches :
       (searches[k].pc = "jumping" /\ searches'[k].pc = "done") =>
         /\ searches'[k].results = searches[k].results
         /\ searches'[k].nav = "results"]_vars

\* C40: when a set of setLayerVisibility, toggleLayerVisibility,
\* showAllLayers, hideAllLayers and showOnlyLayer calls on the bound
\* instance has settled, overlapping or not, with the list of layers
\* fetched before the first of them, the visible flag of every layer of
\* the list says whether the layer is in the engine's visible layers: no
\* change is lost to a concurrent read-modify-write.
C40_FlagsAgreeWithEngine ==
  (/\ instance # None
   /\ \E o \in DOMAIN visOps : visOps[o].kind # "refresh"
   /\ \A o \in DOMAIN visOps :
        /\ visOps[o].pc = "done"
        /\ visOps[o].from = instance
        /\ visOps[o].kind # "refresh" =>
             \A r \in DOMAIN visOps :
               visOps[r].kind = "refresh" => (r < o /\ r \notin visOps[o].during)) =>
    \A i \in DOMAIN pdfLayers :
      pdfLayers[i].visible = (pdfLayers[i].ocgId \in engVisible[instance])

====
